---- MODULE Spec2Model ----
(***************************************************************************)
(* BajOCR: document grouping, renaming and metadata extraction.            *)
(*                                                                         *)
(* Strings are sequences of one-character strings, so that the text        *)
(* conversions of the program (_normalize_key, sanitize_filename,          *)
(* natural_sort_key, str.split) are computed character by character.       *)
(***************************************************************************)
EXTENDS Integers, Sequences, FiniteSets, TLC

VARIABLES
    \* ---- group_folder_to_documents (core.py 263-335)
    folder,     \* whether folder_path is a directory: "dir" or "missing"
    ocr,        \* what the OCR engine and the extractors read on each image
    faults,     \* the file-system faults of this run (unreadable PDFs, locked files)
    pending,    \* images whose analyze_and_pdf_worker future has not completed
    results,    \* `results`: the successful records, in completion order
    nfailed,    \* number of [FAIL] results seen by the driver
    buckets,    \* `buckets`: the dict, as a sequence of [key, arr] in insertion order
    gpc,        \* position of the driver
    gi,         \* index of the loop the driver is in
    made,       \* `made`
    merged,     \* merged PDFs written: sequence of [key, pages]
    moved,      \* images relocated into a document folder
    \* ---- process_folder_parallel / process_image_worker (core.py 369-396, 511-564)
    rdocs,      \* what the extractors read on each image of the folder
    ros,        \* the platform, which decides what os.rename does to an existing target
    rfs,        \* the folder: the files, each [name, n, data]
    rpc,        \* position of each process_image_worker task
    rcand,      \* the suffix ensure_unique_path returned to each task
    rres,       \* the result record each task returned
    rstats,     \* the driver's tallies and self.stats
    \* ---- ensure_unique_path (utils.py 32-42)
    ufs,        \* the suffixes under which the base path exists (NoSuffix: the path itself)
    uret,       \* the suffixes of the paths the calls returned, in call order
    uclock,     \* int(time.time()*1000)
    \* ---- extract_date_enhanced (core.py 88-141)
    dmatches,   \* the regex matches of the text, in findall order
    dk,         \* index of the match the loop is at
    found_dates,\* `found_dates`
    dret,       \* the returned date ("" while running)
    \* ---- one call of a text function (extractors, _normalize_key, sanitize_filename)
    fn,         \* the function called
    arg,        \* its argument
    ret,        \* what it returned (<<>> while it has not returned)
    \* ---- extract_date_with_targeted_ocr (core.py 160-206)
    timg,       \* the page: its whole-page OCR text and whether Image.open succeeds
    tpc,        \* position of the call
    tregion,    \* index of the region the loop is at
    tconfig,    \* index of the config the inner loop is at
    tried,      \* the sub-OCR calls made so far, in order: [region, config, date], date
                \* <<>> when no date other than today's came of the call
    tskipped,   \* the regions whose crop raised
    tret        \* the returned date (<<>> while running)

groupVars  == <<folder, ocr, faults, pending, results, nfailed, buckets, gpc, gi, made, merged, moved>>
renameVars == <<rdocs, ros, rfs, rpc, rcand, rres, rstats>>
uniqueVars == <<ufs, uret, uclock>>
dateVars   == <<dmatches, dk, found_dates, dret>>
callVars   == <<fn, arg, ret>>
targetVars == <<timg, tpc, tregion, tconfig, tried, tskipped, tret>>
vars == <<groupVars, renameVars, uniqueVars, dateVars, callVars, targetVars>>

(***************************************************************************)
(* Characters and strings                                                  *)
(***************************************************************************)
UpperChars == <<"A","B","C","D","E","F","G","H","I","J","K","L","M",
                "N","O","P","Q","R","S","T","U","V","W","X","Y","Z">>
LowerChars == <<"a","b","c","d","e","f","g","h","i","j","k","l","m",
                "n","o","p","q","r","s","t","u","v","w","x","y","z">>
DigitChars == <<"0","1","2","3","4","5","6","7","8","9">>

Range(s) == { s[i] : i \in DOMAIN s }

IndexOf(c, s) == CHOOSE i \in DOMAIN s : s[i] = c

UpperSet == Range(UpperChars)
LowerSet == Range(LowerChars)
DigitSet == Range(DigitChars)

IsUpper(c) == c \in UpperSet
IsLower(c) == c \in LowerSet
IsDigit(c) == c \in DigitSet
IsSpace(c) == c \in {" ", "\t", "\n"}

LowerOf == [c \in UpperSet |-> LowerChars[IndexOf(c, UpperChars)]]

\* str.lower() on one character
LowerChar(c) == IF IsUpper(c) THEN LowerOf[c] ELSE c

\* str.lower()
Lower(s) == [i \in DOMAIN s |-> LowerChar(s[i])]

\* str.strip(): drop leading and trailing whitespace
RECURSIVE LStrip(_)
LStrip(s) == IF s # <<>> /\ IsSpace(Head(s)) THEN LStrip(Tail(s)) ELSE s

RECURSIVE RStrip(_)
RStrip(s) ==
    IF s # <<>> /\ IsSpace(s[Len(s)]) THEN RStrip(SubSeq(s, 1, Len(s) - 1)) ELSE s

Strip(s) == RStrip(LStrip(s))

\* " ".join(s.split()) and re.sub(r'\s+', ' ', s): every whitespace run becomes one
\* space; JoinSplit also drops the runs at both ends
RECURSIVE CollapseSpaces(_)
CollapseSpaces(s) ==
    IF s = <<>> THEN <<>>
    ELSE IF IsSpace(Head(s))
         THEN <<" ">> \o CollapseSpaces(LStrip(s))
         ELSE <<Head(s)>> \o CollapseSpaces(Tail(s))

JoinSplit(s) == CollapseSpaces(Strip(s))

\* the character class [A-Za-z0-9 \.-] of _normalize_key (ASCII part)
KeyChar(c) == IsUpper(c) \/ IsLower(c) \/ IsDigit(c) \/ c \in {" ", ".", "-"}

\* a plausible slip: the separator "_" is kept by the character class
NormalizeKeyKeepsUnderscore(s) ==
    Strip(Lower(SelectSeq(JoinSplit(s), LAMBDA c : KeyChar(c) \/ c = "_")))

\* _normalize_key
NormalizeKey(s) == Strip(Lower(SelectSeq(JoinSplit(s), KeyChar)))

\* gid.split('__')[0]: the text before the first "__"
RECURSIVE LeadingToken(_)
LeadingToken(s) ==
    IF Len(s) < 2 THEN s
    ELSE IF s[1] = "_" /\ s[2] = "_" THEN <<>>
    ELSE <<Head(s)>> \o LeadingToken(Tail(s))

\* "__".join(parts) of two strings, as in the f-string of group_id
Sep == <<"_", "_">>

(***************************************************************************)
(* hamming (utils.py 91-100)                                               *)
(***************************************************************************)
HexChars == <<"0","1","2","3","4","5","6","7","8","9","a","b","c","d","e","f">>

HexValOf == [c \in Range(HexChars) |-> IndexOf(c, HexChars) - 1]

\* int(c, 16) of one hex digit (either case)
HexVal(c) == HexValOf[LowerChar(c)]

Bit(v, k) == (v \div (2 ^ k)) % 2

BitsApart ==
    [a \in 0..15 |-> [b \in 0..15 |->
        LET D(k) == IF Bit(a, k) # Bit(b, k) THEN 1 ELSE 0
        IN D(0) + D(1) + D(2) + D(3)]]

\* a slip: hex digits that differ are counted, not their bits
DigitsApart(a, b) == IF a = b THEN 0 ELSE 1

\* number of one-bits of a XOR b for two hex digits
NibbleDistance(a, b) == BitsApart[a][b]

\* the hex digits of h as numbers, padded on the left with zeros to length n
Digits(h, n) ==
    [i \in 1..n |-> IF i <= n - Len(h) THEN 0 ELSE HexVal(h[i - (n - Len(h))])]

\* hamming(hex_a, hex_b): the population count of int(hex_a,16) ^ int(hex_b,16),
\* summed digit by digit (the integers are 256 bits wide)
Hamming(hex_a, hex_b) ==
    LET n == IF Len(hex_a) > Len(hex_b) THEN Len(hex_a) ELSE Len(hex_b)
        a == Digits(hex_a, n)
        b == Digits(hex_b, n)
        sum[i \in 0..n] == IF i = 0 THEN 0 ELSE sum[i - 1] + NibbleDistance(a[i], b[i])
    IN sum[n]

PHASH_HASH_SIZE == 16
PHASH_DISTANCE_THRESHOLD == 18

\* (hash_size*hash_size)//4 hex digits
HashHexLen == (PHASH_HASH_SIZE * PHASH_HASH_SIZE) \div 4

(***************************************************************************)
(* sanitize_filename, natural_sort_key (utils.py 27-30, 63-65)             *)
(***************************************************************************)
IllegalChar(c) == c \in {"\\", "/", ":", "*", "?", "\"", "<", ">", "|"}

RECURSIVE DropIllegal(_)
DropIllegal(s) == IF s # <<>> /\ IllegalChar(Head(s)) THEN DropIllegal(Tail(s)) ELSE s

\* re.sub(r'[\\/:*?"<>|]+', '_', name): every run of illegal characters becomes one "_"
RECURSIVE ReplaceIllegal(_)
ReplaceIllegal(s) ==
    IF s = <<>> THEN <<>>
    ELSE IF IllegalChar(Head(s))
         THEN <<"_">> \o ReplaceIllegal(DropIllegal(s))
         ELSE <<Head(s)>> \o ReplaceIllegal(Tail(s))

NEZNANO == <<"N","E","Z","N","A","N","O">>

\* a slip: the sentinel for an empty result is forgotten
SanitizeFilenameNoSentinel(name) == Strip(CollapseSpaces(ReplaceIllegal(name)))

\* sanitize_filename
SanitizeFilename(name) ==
    LET t == Strip(CollapseSpaces(ReplaceIllegal(name)))
    IN IF t = <<>> THEN NEZNANO ELSE t

\* int(t) of a digit run
RECURSIVE ToInt(_)
ToInt(t) ==
    IF t = <<>> THEN 0
    ELSE 10 * ToInt(SubSeq(t, 1, Len(t) - 1)) + HexValOf[t[Len(t)]]

\* length of the maximal run at the head of s of characters that are digits (d = TRUE)
\* or are not digits (d = FALSE)
RECURSIVE RunLen(_, _)
RunLen(s, d) ==
    IF s = <<>> \/ IsDigit(Head(s)) # d THEN 0 ELSE 1 + RunLen(Tail(s), d)

\* [int(t) if t.isdigit() else t.lower() for t in re.findall(r'\d+|\D+', s)]
RECURSIVE NaturalSortKey(_)
NaturalSortKey(s) ==
    IF s = <<>> THEN <<>>
    ELSE LET d == IsDigit(Head(s))
             n == RunLen(s, d)
             t == SubSeq(s, 1, n)
             tok == IF d THEN [num |-> TRUE, int |-> ToInt(t), str |-> <<>>]
                         ELSE [num |-> FALSE, int |-> 0, str |-> Lower(t)]
         IN <<tok>> \o NaturalSortKey(SubSeq(s, n + 1, Len(s)))

\* code-point order of the characters that occur in file names
CodeOrder == <<" ", "-", ".">> \o DigitChars \o UpperChars \o <<"_">> \o LowerChars

CodeOf == [c \in Range(CodeOrder) |-> IndexOf(c, CodeOrder)]

CharCode(c) == CodeOf[c]

\* Python's str comparison: "lt", "eq" or "gt"
RECURSIVE StrCmp(_, _)
StrCmp(a, b) ==
    IF a = <<>> THEN (IF b = <<>> THEN "eq" ELSE "lt")
    ELSE IF b = <<>> THEN "gt"
    ELSE IF CharCode(Head(a)) < CharCode(Head(b)) THEN "lt"
    ELSE IF CharCode(Head(a)) > CharCode(Head(b)) THEN "gt"
    ELSE StrCmp(Tail(a), Tail(b))

IntCmp(a, b) == IF a < b THEN "lt" ELSE IF a > b THEN "gt" ELSE "eq"

\* Python's list comparison of two natural keys; "err" is the TypeError of
\* comparing an int with a str
RECURSIVE KeyCmp(_, _)
KeyCmp(a, b) ==
    IF a = <<>> THEN (IF b = <<>> THEN "eq" ELSE "lt")
    ELSE IF b = <<>> THEN "gt"
    ELSE IF Head(a) = Head(b) THEN KeyCmp(Tail(a), Tail(b))
    ELSE IF Head(a).num # Head(b).num THEN "err"
    ELSE IF Head(a).num THEN IntCmp(Head(a).int, Head(b).int)
    ELSE StrCmp(Head(a).str, Head(b).str)

\* a plausible slip: file names compared as plain strings
PlainNameCmp(a, b) == StrCmp(Lower(a), Lower(b))

\* comparison of two pdf names by natural_sort_key(Path(x['pdf']))
NameCmp(a, b) == KeyCmp(NaturalSortKey(a), NaturalSortKey(b))

(***************************************************************************)
(* analyze_and_pdf_worker (core.py 451-509)                                *)
(***************************************************************************)
NumImages == 3

Images == 1..NumImages

\* page is None
NoPage == -1

\* the sentinel 10**9 of the sort key
PageSentinel == 1000000000

\* Path(file_path).stem of the images of the folder: s10, s2, s3, ...
RECURSIVE Itoa(_)
Itoa(n) ==
    IF n < 10 THEN <<DigitChars[n + 1]>>
    ELSE Itoa(n \div 10) \o <<DigitChars[(n % 10) + 1]>>

ImageStem(img) == <<"s">> \o Itoa(IF img = 1 THEN 10 ELSE img)

\* What the extractors return on the OCR text of a page: detect_doc_type_worker,
\* extract_doc_title_worker, extract_parties_worker (<<>> is None),
\* extract_name_worker, header_signature_worker, extract_date_with_targeted_ocr.
POGODBA == <<"P","O","G","O","D","B","A">>
SKLEP == <<"S","K","L","E","P">>
NEZNANO_IME == <<"N","E","Z","N","A","N","O","_","I","M","E">>
neznan_naslov == <<"n","e","z","n","a","n","_","n","a","s","l","o","v">>
SomeDate == <<"0","5","-","0","9","-","2","0","2","5">>

TextA == [doc_type |-> POGODBA,
          title |-> <<"p","o","g","o","d","b","a"," ","a">>,
          parties |-> <<"a","b"," ","d",".","o",".","o",".">>,
          name |-> NEZNANO_IME,
          sig |-> <<"1","a","2","b","3","c","4","d">>,
          date |-> SomeDate]
TextB == [doc_type |-> POGODBA,
          title |-> <<"p","o","g","o","d","b","a"," ","b">>,
          parties |-> <<>>,
          name |-> NEZNANO_IME,
          sig |-> <<"5","e","6","f","7","a","8","b">>,
          date |-> SomeDate]
TextC == [doc_type |-> SKLEP,
          title |-> neznan_naslov,
          parties |-> <<>>,
          name |-> <<"J","a","n","_","N","o","v">>,
          sig |-> <<"9","c","0","d","1","e","2","f">>,
          date |-> SomeDate]

\* Three header hashes, as average_hash packs them: HashB is 18 bits from HashA
\* and from HashC, HashA and HashC are 36 bits apart.
HashOf(nf, last) ==
    [i \in 1..HashHexLen |-> IF i <= nf THEN "f" ELSE IF i = nf + 1 THEN last ELSE "0"]
HashA == HashOf(1, "0")
HashB == HashOf(5, "3")
HashC == HashOf(10, "0")

\* The folder content names the text and the header of each page.
TextNamed(n) == CASE n = "A" -> TextA [] n = "B" -> TextB [] n = "C" -> TextC
HashNamed(n) == CASE n = "A" -> HashA [] n = "B" -> HashB [] n = "C" -> HashC

\* an image Image.open or the OCR engine fails on
Corrupt == [corrupt |-> TRUE, text |-> "A", hash |-> "A", page |-> NoPage]

\* entity: the signatory name, else the parties, else NEZNANO_IME (core.py 470-472)
EntityOf(text) ==
    IF text.name = <<>> \/ text.name = NEZNANO_IME
    THEN (IF text.parties # <<>> THEN text.parties ELSE NEZNANO_IME)
    ELSE text.name

\* group_id (core.py 475)
GroupId(text) ==
    NormalizeKey(text.doc_type \o Sep \o text.title \o Sep
                 \o (IF text.parties # <<>> THEN text.parties ELSE EntityOf(text))
                 \o Sep \o text.sig)

\* pdf_name (core.py 499); the folder holds no PDF yet and the stems differ, so
\* ensure_unique_path returns the path unchanged
PdfName(img, text) ==
    SanitizeFilename(text.date \o <<"_">> \o EntityOf(text) \o <<"_">>
                     \o ImageStem(img) \o <<".","p","d","f">>)

\* the record analyze_and_pdf_worker returns for an image
AnalyzeAndPdfWorker(img, content) ==
    IF content.corrupt
    THEN [ok |-> FALSE, image |-> img]
    ELSE LET text == TextNamed(content.text)
         IN [ok |-> TRUE, image |-> img, pdf |-> PdfName(img, text),
             doc_type |-> text.doc_type, page |-> content.page,
             group |-> GroupId(text), header_hash |-> HashNamed(content.hash)]

(***************************************************************************)
(* group_folder_to_documents (core.py 263-335)                             *)
(*                                                                         *)
(* The lists of the buckets hold references to the dicts of `results`: a   *)
(* bucket's arr is a sequence of indices into results.                     *)
(***************************************************************************)
\* a slip: the test of the leading token is left out
SameDocumentByHashAlone(k, b) ==
    /\ b.arr # <<>>
    /\ results[k].header_hash # <<>>
    /\ results[b.arr[1]].header_hash # <<>>
    /\ Hamming(results[k].header_hash, results[b.arr[1]].header_hash)
         <= PHASH_DISTANCE_THRESHOLD

\* the test of core.py 305-307 of results[k] against the first member of bucket b
SameDocument(k, b) ==
    /\ b.arr # <<>>
    /\ results[k].header_hash # <<>>
    /\ results[b.arr[1]].header_hash # <<>>
    /\ Hamming(results[k].header_hash, results[b.arr[1]].header_hash)
         <= PHASH_DISTANCE_THRESHOLD
    /\ LeadingToken(results[k].group) = LeadingToken(results[b.arr[1]].group)

AppendTo(bs, j, k) == [bs EXCEPT ![j].arr = Append(@, k)]

\* a plausible slip: buckets[gid] = [r], which replaces a bucket of the same key
SetDefaultOverwrites(bs, k) ==
    IF \E j \in DOMAIN bs : bs[j].key = results[k].group
    THEN [bs EXCEPT ![CHOOSE j \in DOMAIN bs : bs[j].key = results[k].group].arr = <<k>>]
    ELSE Append(bs, [key |-> results[k].group, arr |-> <<k>>])

\* buckets.setdefault(gid, []).append(r)
SetDefaultAppend(bs, k) ==
    IF \E j \in DOMAIN bs : bs[j].key = results[k].group
    THEN AppendTo(bs, CHOOSE j \in DOMAIN bs : bs[j].key = results[k].group, k)
    ELSE Append(bs, [key |-> results[k].group, arr |-> <<k>>])

\* the first bucket, in insertion order, that passes the test
FirstMatch(bs, k) ==
    CHOOSE j \in DOMAIN bs :
        /\ SameDocument(k, bs[j])
        /\ \A i \in 1..(j - 1) : ~SameDocument(k, bs[i])

\* a plausible slip: `placed` is never set, so a record taken by a bucket is
\* handed to setdefault as well
PlaceForgetsPlaced(bs, k) ==
    IF \E j \in DOMAIN bs : SameDocument(k, bs[j])
    THEN SetDefaultAppend(AppendTo(bs, FirstMatch(bs, k), k), k)
    ELSE SetDefaultAppend(bs, k)

\* one iteration of the loop of core.py 300-310: the first bucket in insertion
\* order that passes the test takes the record, else setdefault
Place(bs, k) ==
    IF \E j \in DOMAIN bs : SameDocument(k, bs[j])
    THEN AppendTo(bs, FirstMatch(bs, k), k)
    ELSE SetDefaultAppend(bs, k)

\* x['page'] if isinstance(x['page'], int) else 10**9
PageKey(r) == IF r.page # NoPage THEN r.page ELSE PageSentinel

\* comparison of the sort keys (page key, natural key of the pdf name) of two records
RecordCmp(a, b) ==
    IF PageKey(a) # PageKey(b) THEN IntCmp(PageKey(a), PageKey(b))
    ELSE NameCmp(a.pdf, b.pdf)

\* insert x behind every element that does not compare greater (stable)
RECURSIVE InsertSorted(_, _)
InsertSorted(arr, x) ==
    IF arr = <<>> THEN <<x>>
    ELSE IF RecordCmp(results[x], results[Head(arr)]) = "lt" THEN <<x>> \o arr
    ELSE <<Head(arr)>> \o InsertSorted(Tail(arr), x)

\* arr.sort(key=...): a stable sort
RECURSIVE SortRecords(_)
SortRecords(arr) ==
    IF arr = <<>> THEN <<>>
    ELSE InsertSorted(SortRecords(SubSeq(arr, 1, Len(arr) - 1)), arr[Len(arr)])

\* the sort raises TypeError when it has to compare an int with a str; the pdf
\* names all start with the digits of the date, so their keys never do
SortRaises(arr) ==
    \E i, j \in DOMAIN arr : RecordCmp(results[arr[i]], results[arr[j]]) = "err"

NoFaults == [badPdf |-> {}, locked |-> {}]

\* one future completes and the driver takes its result (core.py 286-293)
Complete(img) ==
    /\ gpc = "collect"
    /\ img \in pending
    /\ pending' = pending \ {img}
    /\ LET res == AnalyzeAndPdfWorker(img, ocr[img])
       IN IF res.ok
          THEN results' = Append(results, res) /\ UNCHANGED nfailed
          ELSE nfailed' = nfailed + 1 /\ UNCHANGED results
    /\ UNCHANGED <<folder, ocr, faults, buckets, gpc, gi, made, merged, moved>>
    /\ UNCHANGED <<renameVars, uniqueVars, dateVars, callVars, targetVars>>

\* a slip: the bucketing starts although no worker returned a record
EndCollectWithoutResults ==
    /\ gpc = "collect"
    /\ pending = {}
    /\ gpc' = "bucket"
    /\ gi' = 1
    /\ UNCHANGED <<folder, ocr, faults, pending, results, nfailed, buckets, made, merged, moved>>
    /\ UNCHANGED <<renameVars, uniqueVars, dateVars, callVars, targetVars>>

\* a slip: the bucketing starts once a result is there, with futures still running
EndCollectEarly ==
    /\ gpc = "collect"
    /\ results # <<>>
    /\ gpc' = "bucket"
    /\ gi' = 1
    /\ UNCHANGED <<folder, ocr, faults, pending, results, nfailed, buckets, made, merged, moved>>
    /\ UNCHANGED <<renameVars, uniqueVars, dateVars, callVars, targetVars>>

\* the pool is exhausted: return False without results, else start bucketing
\* (core.py 295-299)
EndCollect ==
    /\ gpc = "collect"
    /\ pending = {}
    /\ gpc' = IF results = <<>> THEN "ret_false" ELSE "bucket"
    /\ gi' = 1
    /\ UNCHANGED <<folder, ocr, faults, pending, results, nfailed, buckets, made, merged, moved>>
    /\ UNCHANGED <<renameVars, uniqueVars, dateVars, callVars, targetVars>>

\* one iteration of the bucketing loop (core.py 300-310)
PlaceRecord ==
    /\ gpc = "bucket"
    /\ gi <= Len(results)
    /\ buckets' = Place(buckets, gi)
    /\ gi' = IF gi = Len(results) THEN 1 ELSE gi + 1
    /\ gpc' = IF gi = Len(results) THEN "sort" ELSE "bucket"
    /\ UNCHANGED <<folder, ocr, faults, pending, results, nfailed, made, merged, moved>>
    /\ UNCHANGED <<renameVars, uniqueVars, dateVars, callVars, targetVars>>

\* the sort loop (core.py 313-315)
SortBuckets ==
    /\ gpc = "sort"
    /\ IF \E j \in DOMAIN buckets : SortRaises(buckets[j].arr)
       THEN gpc' = "raised" /\ UNCHANGED buckets
       ELSE /\ gpc' = "merge"
            /\ buckets' = [j \in DOMAIN buckets |->
                             [buckets[j] EXCEPT !.arr = SortRecords(@)]]
    /\ UNCHANGED <<folder, ocr, faults, pending, results, nfailed, gi, made, merged, moved>>
    /\ UNCHANGED <<renameVars, uniqueVars, dateVars, callVars, targetVars>>

\* one iteration of the merge-and-move loop (core.py 319-335): merge_pdfs is not
\* guarded, so its exception leaves the method; a failed move is caught and logged
MergeBucket ==
    /\ gpc = "merge"
    /\ gi <= Len(buckets)
    /\ LET b == buckets[gi]
           members == { results[b.arr[k]].image : k \in DOMAIN b.arr }
       IN IF members \cap faults.badPdf # {}
          THEN /\ gpc' = "raised"
               /\ UNCHANGED <<gi, made, merged, moved>>
          ELSE /\ merged' = Append(merged,
                     [key |-> SanitizeFilename(b.key),
                      pages |-> [k \in DOMAIN b.arr |-> results[b.arr[k]].pdf]])
               /\ made' = made + 1
               /\ moved' = moved \cup (members \ faults.locked)
               /\ gi' = gi + 1
               /\ gpc' = IF gi = Len(buckets)
                         THEN (IF made + 1 > 0 THEN "ret_true" ELSE "ret_false")
                         ELSE "merge"
    /\ UNCHANGED <<folder, ocr, faults, pending, results, nfailed, buckets>>
    /\ UNCHANGED <<renameVars, uniqueVars, dateVars, callVars, targetVars>>

GroupInit ==
    /\ folder = "dir"
    /\ pending = Images
    /\ results = <<>>
    /\ nfailed = 0
    /\ buckets = <<>>
    /\ gpc = "collect"
    /\ gi = 1
    /\ made = 0
    /\ merged = <<>>
    /\ moved = {}

GroupIdle ==
    /\ folder = "none"
    /\ ocr = <<>>
    /\ faults = NoFaults
    /\ pending = {}
    /\ results = <<>>
    /\ nfailed = 0
    /\ buckets = <<>>
    /\ gpc = "idle"
    /\ gi = 1
    /\ made = 0
    /\ merged = <<>>
    /\ moved = {}

RenameIdle ==
    /\ rdocs = <<>>
    /\ ros = "none"
    /\ rfs = {}
    /\ rpc = <<>>
    /\ rcand = <<>>
    /\ rres = <<>>
    /\ rstats = <<>>

UniqueIdle ==
    /\ ufs = {}
    /\ uret = <<>>
    /\ uclock = 0

DateIdle ==
    /\ dmatches = <<>>
    /\ dk = 1
    /\ found_dates = <<>>
    /\ dret = <<>>

CallIdle ==
    /\ fn = "none"
    /\ arg = <<>>
    /\ ret = <<>>

TargetIdle ==
    /\ timg = <<>>
    /\ tpc = "idle"
    /\ tregion = 1
    /\ tconfig = 1
    /\ tried = <<>>
    /\ tskipped = {}
    /\ tret = <<>>

GroupNext ==
    \/ \E img \in Images : Complete(img)
    \/ EndCollect
    \/ PlaceRecord
    \/ SortBuckets
    \/ MergeBucket

\* Folders whose pages differ in text and in header hash, without file-system
\* faults. The bucketing never reads the file names, so one folder stands for all
\* the folders that hold the same pages under other names: the pages are listed
\* in the order of BucketContent.
BucketContent ==
    << Corrupt,
       [corrupt |-> FALSE, text |-> "A", hash |-> "A", page |-> NoPage],
       [corrupt |-> FALSE, text |-> "A", hash |-> "B", page |-> NoPage],
       [corrupt |-> FALSE, text |-> "A", hash |-> "C", page |-> NoPage],
       [corrupt |-> FALSE, text |-> "B", hash |-> "A", page |-> NoPage],
       [corrupt |-> FALSE, text |-> "B", hash |-> "B", page |-> NoPage],
       [corrupt |-> FALSE, text |-> "B", hash |-> "C", page |-> NoPage],
       [corrupt |-> FALSE, text |-> "C", hash |-> "A", page |-> NoPage],
       [corrupt |-> FALSE, text |-> "C", hash |-> "B", page |-> NoPage],
       [corrupt |-> FALSE, text |-> "C", hash |-> "C", page |-> NoPage] >>

InitGroup ==
    /\ \E f \in [Images -> DOMAIN BucketContent] :
          /\ \A i, j \in Images : i <= j => f[i] <= f[j]
          /\ ocr = [img \in Images |-> BucketContent[f[img]]]
    /\ faults = NoFaults
    /\ GroupInit
    /\ RenameIdle /\ UniqueIdle /\ DateIdle /\ CallIdle /\ TargetIdle

SpecGroup == InitGroup /\ [][GroupNext]_vars

\* Folders of pages of one document that differ in page number and file name.
BigPage == PageSentinel + 1

SortContent ==
    { [corrupt |-> FALSE, text |-> "A", hash |-> "A", page |-> p] :
        p \in {NoPage, 1, 2, BigPage} }

InitSort ==
    /\ ocr \in [Images -> SortContent]
    /\ faults = NoFaults
    /\ GroupInit
    /\ RenameIdle /\ UniqueIdle /\ DateIdle /\ CallIdle /\ TargetIdle

SpecSort == InitSort /\ [][GroupNext]_vars

\* Folders of pages of two documents, where one intermediate PDF may be unreadable
\* for the merge or one file may be locked against the move.
FinalContent ==
    { [corrupt |-> FALSE, text |-> t, hash |-> "A", page |-> NoPage] : t \in {"A", "C"} }

OneFault ==
    {NoFaults}
    \cup { [badPdf |-> {img}, locked |-> {}] : img \in Images }
    \cup { [badPdf |-> {}, locked |-> {img}] : img \in Images }

InitFinal ==
    /\ ocr \in [Images -> FinalContent]
    /\ faults \in OneFault
    /\ GroupInit
    /\ RenameIdle /\ UniqueIdle /\ DateIdle /\ CallIdle /\ TargetIdle

SpecFinal == InitFinal /\ [][GroupNext]_vars

(***************************************************************************)
(* Properties of the bucketing (SpecGroup)                                 *)
(***************************************************************************)
\* the bucketing loop has run over every record
Bucketed == gpc \in {"sort", "merge", "ret_true", "raised"}

Members(j) == { buckets[j].arr[p] : p \in DOMAIN buckets[j].arr }

SameBucket(i, k) == \E j \in DOMAIN buckets : i \in Members(j) /\ k \in Members(j)

SameLead(i, k) == LeadingToken(results[i].group) = LeadingToken(results[k].group)

Near(i, k) ==
    Hamming(results[i].header_hash, results[k].header_hash) <= PHASH_DISTANCE_THRESHOLD

\* C1: whatever the arrival order, two successful records with the same leading
\* token of group_key and header hashes at most PHASH_DISTANCE_THRESHOLD bits
\* apart are in the same bucket once the bucketing loop is over.
C1_NearSameLeadShareBucket ==
    Bucketed =>
        \A i, k \in DOMAIN results :
            SameBucket(i, k) \/ ~(SameLead(i, k) /\ Near(i, k))

\* C1 witness: two distinct records with the same leading token and hashes within
\* the threshold share a bucket although one of them is further than the
\* threshold from the bucket's first member.
C1_Witness ==
    /\ Bucketed
    /\ \E i, k \in DOMAIN results, j \in DOMAIN buckets :
          /\ i # k /\ SameLead(i, k) /\ Near(i, k)
          /\ results[i].header_hash # results[k].header_hash
          /\ i \in Members(j) /\ k \in Members(j)
          /\ ~Near(k, buckets[j].arr[1])

\* C2: two successful records that differ in the leading token of group_key, or
\* whose header hashes are more than PHASH_DISTANCE_THRESHOLD bits apart, are in
\* different buckets (also when their full group_key is the same).
C2_FarOrOtherLeadSplit ==
    Bucketed =>
        \A i, k \in DOMAIN results :
            (i # k /\ (~SameLead(i, k) \/ ~Near(i, k))) => ~SameBucket(i, k)

\* C3: the leading component gid.split('__')[0] of a record's group_key is its
\* document-type token, so records of the same document type have equal leading
\* components whatever their title, parties or header signature.
C3_LeadIsDocType ==
    /\ \A k \in DOMAIN results :
          LeadingToken(results[k].group) = NormalizeKey(results[k].doc_type)
    /\ \A i, k \in DOMAIN results :
          results[i].doc_type = results[k].doc_type => SameLead(i, k)

\* number of places, over all buckets, that hold record k
Occurrences(k) ==
    Cardinality({ jp \in (DOMAIN buckets) \X (1..Len(results)) :
                    /\ jp[2] \in DOMAIN buckets[jp[1]].arr
                    /\ buckets[jp[1]].arr[jp[2]] = k })

\* C4: after the bucketing loop every successful record is a member of exactly
\* one bucket, once, and no bucket is empty.
C4_ExactlyOneBucket ==
    Bucketed =>
        /\ \A k \in DOMAIN results : Occurrences(k) = 1
        /\ \A j \in DOMAIN buckets :
              /\ buckets[j].arr # <<>>
              /\ Len(buckets[j].arr) <= Len(results)
              /\ Members(j) \subseteq DOMAIN results

\* C4 witness: all the images were read, and the loop has built a bucket of
\* several records next to another bucket.
C4_Witness ==
    /\ gpc = "sort"
    /\ Len(results) = NumImages
    /\ Len(buckets) >= 2
    /\ \E j \in DOMAIN buckets : Len(buckets[j].arr) >= 2

(***************************************************************************)
(* Properties of the page order and of the finalization                    *)
(***************************************************************************)
Sorted == gpc \in {"merge", "ret_true"}

\* C5: in every bucket the numbered records are in ascending page order, every
\* record without a page number comes after every numbered record, records of
\* equal (or both missing) page number are in natural order of their file names,
\* and the merged PDF takes its pages in this order.
C5_PageOrder ==
    Sorted =>
        /\ \A j \in DOMAIN buckets : \A p, q \in DOMAIN buckets[j].arr :
              LET a == results[buckets[j].arr[p]]
                  b == results[buckets[j].arr[q]]
              IN p < q =>
                   /\ (a.page # NoPage /\ b.page # NoPage) => a.page <= b.page
                   /\ ~(a.page = NoPage /\ b.page # NoPage)
                   /\ a.page = b.page => NameCmp(a.pdf, b.pdf) \in {"lt", "eq"}
        /\ \A m \in DOMAIN merged :
              merged[m].pages =
                 [p \in DOMAIN buckets[m].arr |-> results[buckets[m].arr[p]].pdf]

Finished == gpc \in {"ret_true", "ret_false", "raised"}

BucketImages(j) == { results[k].image : k \in Members(j) }

\* C6: when the method is over, every bucket whose own merge and moves did not
\* fail has been merged and has its files relocated, whatever happened to the
\* other buckets.
C6_OtherBucketsFinalized ==
    Finished =>
        \A j \in DOMAIN buckets :
            BucketImages(j) \cap (faults.badPdf \cup faults.locked) = {} =>
                /\ \E m \in DOMAIN merged : merged[m].key = SanitizeFilename(buckets[j].key)
                /\ BucketImages(j) \subseteq moved

(***************************************************************************)
(* ensure_unique_path (utils.py 32-42)                                     *)
(*                                                                         *)
(* A path is its base name and the suffix the function appended to it:     *)
(* NoSuffix for the path as given, i for f"{base}_{i}{ext}".               *)
(***************************************************************************)
NoSuffix == -1

\* range(1, 101)
MaxAttempts == 100

\* int(_t.time()*1000) % 10000
TimestampModulus == 10000

\* a plausible slip: the first candidate is returned without the existence test
EnsureUniquePathUnchecked(taken, now) ==
    IF NoSuffix \notin taken THEN NoSuffix ELSE 1

\* ensure_unique_path: `taken` are the suffixes that exist, `now` the clock
EnsureUniquePath(taken, now) ==
    IF NoSuffix \notin taken THEN NoSuffix
    ELSE IF \E i \in 1..MaxAttempts : i \notin taken
         THEN CHOOSE i \in 1..MaxAttempts :
                 i \notin taken /\ \A k \in 1..(i - 1) : k \in taken
         ELSE now % TimestampModulus

MaxCalls == 3
MaxClock == 2

\* the caller asks for a free path
CallEnsureUniquePath ==
    /\ Len(uret) < MaxCalls
    /\ uret' = Append(uret, EnsureUniquePath(ufs, uclock))
    /\ UNCHANGED <<ufs, uclock>>
    /\ UNCHANGED <<groupVars, renameVars, dateVars, callVars, targetVars>>

\* the caller creates the file or folder at a path it was given (mkdir, open, rename)
CreateReturned(c) ==
    /\ c \in DOMAIN uret
    /\ uret[c] \notin ufs
    /\ ufs' = ufs \cup {uret[c]}
    /\ UNCHANGED <<uret, uclock>>
    /\ UNCHANGED <<groupVars, renameVars, dateVars, callVars, targetVars>>

\* a millisecond passes
Tick ==
    /\ uclock < MaxClock
    /\ uclock' = uclock + 1
    /\ UNCHANGED <<ufs, uret>>
    /\ UNCHANGED <<groupVars, renameVars, dateVars, callVars, targetVars>>

UniqueNext ==
    \/ CallEnsureUniquePath
    \/ \E c \in 1..MaxCalls : CreateReturned(c)
    \/ Tick

\* the folder holds nothing of that name, or the path and its first k candidates
InitUnique ==
    /\ ufs \in {{}} \cup { {NoSuffix} \cup (1..k) : k \in 0..MaxAttempts }
    /\ uret = <<>>
    /\ uclock = 0
    /\ GroupIdle /\ RenameIdle /\ DateIdle /\ CallIdle /\ TargetIdle

SpecUnique == InitUnique /\ [][UniqueNext]_vars

\* C9: two calls of ensure_unique_path in sequence for the same base path return
\* two distinct paths.
C9_TwoCallsDistinct ==
    \A c, d \in DOMAIN uret : c < d => uret[c] # uret[d]

(***************************************************************************)
(* process_folder_parallel and process_image_worker (core.py 369-396,      *)
(* 511-564)                                                                *)
(*                                                                         *)
(* The folder holds the images scan_1.png, scan_2.png, ...; rdocs names    *)
(* the new_name the extractors give each image, or says that Image.open    *)
(* fails on it. The pool runs the tasks concurrently.                      *)
(***************************************************************************)
SourceFile(w) == [name |-> "scan", n |-> w, data |-> w]

\* the suffixes under which a path of that name exists in the folder
Taken(name) == { f.n : f \in { g \in rfs : g.name = name } }

Exists(name, n) == \E f \in rfs : f.name = name /\ f.n = n

\* the task reads the image and asks for its new path (core.py 525-544): a missing
\* or unreadable image ends the task with a failure record
NameImage(w) ==
    /\ rpc[w] = "start"
    /\ IF ~Exists("scan", w) \/ rdocs[w] = "corrupt"
       THEN /\ rres' = [rres EXCEPT ![w] = "failed"]
            /\ rpc' = [rpc EXCEPT ![w] = "done"]
            /\ UNCHANGED rcand
       ELSE /\ rcand' = [rcand EXCEPT ![w] = EnsureUniquePath(Taken(rdocs[w]), uclock)]
            /\ rpc' = [rpc EXCEPT ![w] = "named"]
            /\ UNCHANGED rres
    /\ UNCHANGED <<rdocs, ros, rfs, rstats>>
    /\ UNCHANGED <<groupVars, uniqueVars, dateVars, callVars, targetVars>>

\* os.rename(file_path, new_path) (core.py 545): onto an existing target it
\* replaces the target on POSIX and raises FileExistsError on Windows, which the
\* task turns into a failure record
RenameImage(w) ==
    /\ rpc[w] = "named"
    /\ rpc' = [rpc EXCEPT ![w] = "done"]
    /\ IF Exists(rdocs[w], rcand[w]) /\ ros = "windows"
       THEN /\ rres' = [rres EXCEPT ![w] = "failed"]
            /\ UNCHANGED rfs
       ELSE /\ rres' = [rres EXCEPT ![w] = "success"]
            /\ rfs' = { f \in rfs : ~(f.name = "scan" /\ f.n = w)
                                   /\ ~(f.name = rdocs[w] /\ f.n = rcand[w]) }
                      \cup {[name |-> rdocs[w], n |-> rcand[w], data |-> w]}
    /\ UNCHANGED <<rdocs, ros, rcand, rstats>>
    /\ UNCHANGED <<groupVars, uniqueVars, dateVars, callVars, targetVars>>

\* as_completed hands a finished task to the driver (core.py 387-394)
CollectResult(w) ==
    /\ rpc[w] = "done"
    /\ rpc' = [rpc EXCEPT ![w] = "collected"]
    /\ rstats' = IF rres[w] = "success"
                 THEN [rstats EXCEPT !.successful = @ + 1, !.records = @ + 1]
                 ELSE [rstats EXCEPT !.failed = @ + 1, !.records = @ + 1]
    /\ UNCHANGED <<rdocs, ros, rfs, rcand, rres>>
    /\ UNCHANGED <<groupVars, uniqueVars, dateVars, callVars, targetVars>>

\* self.stats.update(...) after the pool (core.py 395)
UpdateStats ==
    /\ \A w \in Images : rpc[w] = "collected"
    /\ ~rstats.finished
    /\ rstats' = [rstats EXCEPT !.finished = TRUE, !.processed = NumImages]
    /\ UNCHANGED <<rdocs, ros, rfs, rpc, rcand, rres>>
    /\ UNCHANGED <<groupVars, uniqueVars, dateVars, callVars, targetVars>>

RenameNext ==
    \/ \E w \in Images : NameImage(w)
    \/ \E w \in Images : RenameImage(w)
    \/ \E w \in Images : CollectResult(w)
    \/ UpdateStats

InitRename ==
    /\ rdocs \in [Images -> {"corrupt", "X", "Y"}]
    /\ ros \in {"posix", "windows"}
    /\ rfs = { SourceFile(w) : w \in Images }
    /\ rpc = [w \in Images |-> "start"]
    /\ rcand = [w \in Images |-> NoSuffix]
    /\ rres = [w \in Images |-> "none"]
    /\ rstats = [successful |-> 0, failed |-> 0, records |-> 0, processed |-> 0,
                 finished |-> FALSE]
    /\ GroupIdle /\ UniqueIdle /\ DateIdle /\ CallIdle /\ TargetIdle

SpecRename == InitRename /\ [][RenameNext]_vars

Valid == { w \in Images : rdocs[w] # "corrupt" }

\* C7: a batch of N valid images and one corrupt image yields N success records
\* and 1 failure record, one record per image, and successful + failed =
\* processed = number of images.
C7_OneCorruptAmongValid ==
    (rstats.finished /\ Cardinality(Images \ Valid) = 1) =>
        /\ rstats.successful = Cardinality(Valid)
        /\ rstats.failed = 1
        /\ rstats.records = NumImages
        /\ rstats.successful + rstats.failed = rstats.processed
        /\ rstats.processed = NumImages

\* the task holds a new path: it is about to rename to it, or has renamed to it
HoldsPath(w) == rpc[w] = "named" \/ rres[w] = "success"

\* C8: no two concurrent workers rename to the same output path, and no worker's
\* output file is overwritten by another's: every renamed image is in the folder
\* under the path its worker reported.
C8_DistinctOutputs ==
    /\ \A w, v \in Images :
          (w # v /\ HoldsPath(w) /\ HoldsPath(v))
              => <<rdocs[w], rcand[w]>> # <<rdocs[v], rcand[v]>>
    /\ \A w \in Images :
          rres[w] = "success" =>
              [name |-> rdocs[w], n |-> rcand[w], data |-> w] \in rfs

(***************************************************************************)
(* extract_date_enhanced (core.py 88-141)                                  *)
(*                                                                         *)
(* dmatches are the tuples pattern.findall returns, pattern by pattern:    *)
(* [i, g] with i the index of the pattern in DATE_PATTERNS and g its three *)
(* groups.                                                                 *)
(***************************************************************************)
\* datetime.today(): the year and the date as "%d-%m-%Y"
CurrentYear == 2026
Today == <<"0","1","-","1","1","-","2","0","2","6">>

MaxYear == CurrentYear + 1

\* MONTH_MAP (constants.py 50-63)
MONTH_MAP ==
    << <<<<"j","a","n","u","a","r">>, <<"0","1">>>>,
       <<<<"j","a","n">>, <<"0","1">>>>,
       <<<<"f","e","b","r","u","a","r">>, <<"0","2">>>>,
       <<<<"f","e","b">>, <<"0","2">>>>,
       <<<<"m","a","r","e","c">>, <<"0","3">>>>,
       <<<<"m","a","r">>, <<"0","3">>>>,
       <<<<"a","p","r","i","l">>, <<"0","4">>>>,
       <<<<"a","p","r">>, <<"0","4">>>>,
       <<<<"m","a","j">>, <<"0","5">>>>,
       <<<<"j","u","n","i","j">>, <<"0","6">>>>,
       <<<<"j","u","n">>, <<"0","6">>>>,
       <<<<"j","u","l","i","j">>, <<"0","7">>>>,
       <<<<"j","u","l">>, <<"0","7">>>>,
       <<<<"a","v","g","u","s","t">>, <<"0","8">>>>,
       <<<<"a","v","g">>, <<"0","8">>>>,
       <<<<"s","e","p","t","e","m","b","e","r">>, <<"0","9">>>>,
       <<<<"s","e","p">>, <<"0","9">>>>,
       <<<<"o","k","t","o","b","e","r">>, <<"1","0">>>>,
       <<<<"o","k","t">>, <<"1","0">>>>,
       <<<<"n","o","v","e","m","b","e","r">>, <<"1","1">>>>,
       <<<<"n","o","v">>, <<"1","1">>>>,
       <<<<"d","e","c","e","m","b","e","r">>, <<"1","2">>>>,
       <<<<"d","e","c">>, <<"1","2">>>> >>

\* MONTH_MAP.get(month_name, '01')
MonthOf(month_name) ==
    IF \E e \in DOMAIN MONTH_MAP : MONTH_MAP[e][1] = month_name
    THEN MONTH_MAP[CHOOSE e \in DOMAIN MONTH_MAP : MONTH_MAP[e][1] = month_name][2]
    ELSE <<"0", "1">>

\* the groups of a match as (day, month, year) (core.py 111-121)
DayOf(m) == IF m.i = 1 THEN m.g[3] ELSE m.g[1]
MonthStrOf(m) ==
    IF m.i = 2 THEN MonthOf(Lower(m.g[2])) ELSE m.g[2]
YearOf(m) == IF m.i = 1 THEN m.g[1] ELSE m.g[3]

\* the rule as documented: below 50 the century is 2000, else 1900
YearIntBelow50(year) ==
    IF Len(year) = 2
    THEN ToInt(year) + (IF ToInt(year) < 50 THEN 2000 ELSE 1900)
    ELSE ToInt(year)

\* year normalization (core.py 124-126)
YearInt(year) ==
    IF Len(year) = 2
    THEN ToInt(year) + (IF ToInt(year) > 50 THEN 1900 ELSE 2000)
    ELSE ToInt(year)

\* str.zfill(2)
ZFill2(t) == IF Len(t) < 2 THEN <<"0">> \o t ELSE t

\* f"{day.zfill(2)}-{month.zfill(2)}-{str(year_int)}"
Formatted(m) ==
    ZFill2(DayOf(m)) \o <<"-">> \o ZFill2(MonthStrOf(m)) \o <<"-">> \o Itoa(YearInt(YearOf(m)))

\* the range checks (core.py 128-131)
ValidDate(m) ==
    /\ 1900 <= YearInt(YearOf(m)) /\ YearInt(YearOf(m)) <= MaxYear
    /\ 1 <= ToInt(MonthStrOf(m)) /\ ToInt(MonthStrOf(m)) <= 12
    /\ 1 <= ToInt(DayOf(m)) /\ ToInt(DayOf(m)) <= 31

\* one iteration of the loop over the matches (core.py 109-135)
DateMatch ==
    /\ dret = <<>>
    /\ 1 <= dk /\ dk <= Len(dmatches)
    /\ found_dates' =
          IF ValidDate(dmatches[dk])
          THEN Append(found_dates, [formatted |-> Formatted(dmatches[dk]),
                                    year |-> YearInt(YearOf(dmatches[dk]))])
          ELSE found_dates
    /\ dk' = dk + 1
    /\ UNCHANGED <<dmatches, dret>>
    /\ UNCHANGED <<groupVars, renameVars, uniqueVars, callVars, targetVars>>

\* the entry of the most recent year is taken from the last place it has in the
\* list, as a sort that is not stable may leave it
LastOfMostRecent(fd) ==
    fd[CHOOSE e \in DOMAIN fd :
          /\ \A o \in DOMAIN fd : fd[o].year <= fd[e].year
          /\ \A o \in (e + 1)..Len(fd) : fd[o].year < fd[e].year].formatted

\* insert x behind every entry whose year is not smaller: list.sort is stable, also
\* with reverse=True
RECURSIVE InsertByYear(_, _)
InsertByYear(fd, x) ==
    IF fd = <<>> THEN <<x>>
    ELSE IF Head(fd).year < x.year THEN <<x>> \o fd
    ELSE <<Head(fd)>> \o InsertByYear(Tail(fd), x)

\* found_dates.sort(key=lambda x: x[1], reverse=True)
RECURSIVE SortByYear(_)
SortByYear(fd) ==
    IF fd = <<>> THEN <<>>
    ELSE InsertByYear(SortByYear(SubSeq(fd, 1, Len(fd) - 1)), fd[Len(fd)])

\* found_dates.sort(...); found_dates[0][0]
MostRecent(fd) == SortByYear(fd)[1].formatted

\* the return (core.py 137-141)
DateReturn ==
    /\ dret = <<>>
    /\ 1 <= dk /\ dk > Len(dmatches)
    /\ dret' = IF found_dates # <<>> THEN MostRecent(found_dates) ELSE Today
    /\ UNCHANGED <<dmatches, dk, found_dates>>
    /\ UNCHANGED <<groupVars, renameVars, uniqueVars, callVars, targetVars>>

DateNext == DateMatch \/ DateReturn

\* the longest list of matches a text of the model has
MaxMatches == 2

Days == { <<"5">>, <<"3","1">>, <<"3","2">> }
Months == { <<"9">>, <<"1","2">>, <<"1","3">> }
Years4 == { <<"1","8","9","9">>, <<"2","0","2","5">>, <<"2","0","2","7">>,
            <<"2","0","2","8">> }
Years2 == { <<"0","0">>, <<"2","3">>, <<"4","9">>, <<"5","0">>, <<"5","1">>,
            <<"9","9">> }
MonthNames == { <<"m","a","j">>, <<"S","e","p">> }

\* what the patterns of DATE_PATTERNS (constants.py 13-33) can return: pattern 3
\* alone takes a year of two digits
Matches ==
    { [i |-> 0, g |-> <<d, m, y>>] : d \in Days, m \in Months, y \in Years4 }
    \cup { [i |-> 1, g |-> <<y, m, d>>] : d \in {<<"5">>}, m \in {<<"9">>}, y \in Years4 }
    \cup { [i |-> 2, g |-> <<d, m, y>>] :
             d \in {<<"5">>}, m \in MonthNames, y \in {<<"2","0","2","5">>} }
    \cup { [i |-> 3, g |-> <<d, m, y>>] :
             d \in {<<"5">>}, m \in {<<"9">>}, y \in Years2 \cup {<<"2","0","2","5">>} }

InitDate ==
    /\ dmatches \in UNION { [1..n -> Matches] : n \in 0..MaxMatches }
    /\ \A a, b \in DOMAIN dmatches : a <= b => dmatches[a].i <= dmatches[b].i
    /\ dk = 1
    /\ found_dates = <<>>
    /\ dret = <<>>
    /\ GroupIdle /\ RenameIdle /\ UniqueIdle /\ CallIdle /\ TargetIdle

SpecDate == InitDate /\ [][DateNext]_vars

\* C10: a year of two digits yy is normalized to 2000+yy when yy < 50 and to
\* 1900+yy otherwise, before the range check: every match gone through whose
\* year, normalized that way, passes the range checks has its date, with that
\* year, in found_dates.
C10_TwoDigitYearRule ==
    \A k \in 1..(dk - 1) :
        LET m == dmatches[k]
            y == YearIntBelow50(YearOf(m))
        IN (/\ Len(YearOf(m)) = 2
            /\ 1900 <= y /\ y <= MaxYear
            /\ 1 <= ToInt(MonthStrOf(m)) /\ ToInt(MonthStrOf(m)) <= 12
            /\ 1 <= ToInt(DayOf(m)) /\ ToInt(DayOf(m)) <= 31)
           => \E e \in DOMAIN found_dates : found_dates[e].year = y

(***************************************************************************)
(* Regular expressions (re.compile, findall, search, match)                *)
(*                                                                         *)
(* A pattern is a sequence of elements, matched by backtracking as re      *)
(* does: a greedy repetition takes the longest run for which the rest of   *)
(* the pattern still matches, an alternation its first such alternative.   *)
(*   rep: between lo and hi characters of a class, kept as group cap       *)
(*   alt: one of the words, letter case ignored, kept as group cap         *)
(*   wb:  \b     end: $     open, close: a group of several elements       *)
(***************************************************************************)
Rep(set, lo, hi, cap) ==
    [k |-> "rep", set |-> set, lo |-> lo, hi |-> hi, cap |-> cap, words |-> <<>>]
Alt(words, cap) ==
    [k |-> "alt", set |-> {}, lo |-> 0, hi |-> 0, cap |-> cap, words |-> words]
WordBoundary == [k |-> "wb", set |-> {}, lo |-> 0, hi |-> 0, cap |-> 0, words |-> <<>>]
\* the parentheses of a group of several elements
Open(cap) == [k |-> "open", set |-> {}, lo |-> 0, hi |-> 0, cap |-> cap, words |-> <<>>]
Close(cap) == [k |-> "close", set |-> {}, lo |-> 0, hi |-> 0, cap |-> cap, words |-> <<>>]
EndOfText == [k |-> "end", set |-> {}, lo |-> 0, hi |-> 0, cap |-> 0, words |-> <<>>]

\* the literal text w, letter case ignored
Literal(w) == Alt(<<w>>, 0)

\* a repetition without an upper limit: no text of the model is longer
Unlimited == 64

NoGroups == [g \in 1..3 |-> <<>>]

NoMatch == [ok |-> FALSE, start |-> 0, end |-> 0, groups |-> NoGroups]

\* \w (ASCII part)
IsWordChar(c) == IsUpper(c) \/ IsLower(c) \/ IsDigit(c) \/ c = "_"

\* \b before position pos: exactly one of its two neighbours is a word character
AtWordBoundary(text, pos) ==
    (pos > 1 /\ IsWordChar(text[pos - 1])) # (pos <= Len(text) /\ IsWordChar(text[pos]))

\* the number of characters of the class at pos, at most hi
RECURSIVE RunIn(_, _, _, _)
RunIn(text, pos, set, hi) ==
    IF hi = 0 \/ pos > Len(text) \/ text[pos] \notin set THEN 0
    ELSE 1 + RunIn(text, pos + 1, set, hi - 1)

\* the text has the word w at pos, letter case ignored
HasWordAt(text, pos, w) ==
    /\ pos + Len(w) - 1 <= Len(text)
    /\ \A i \in 1..Len(w) : LowerChar(text[pos + i - 1]) = LowerChar(w[i])

SetGroup(groups, cap, t) == IF cap = 0 THEN groups ELSE [groups EXCEPT ![cap] = t]

\* the match of the elements e.. of the pattern at pos, if there is one
RECURSIVE MatchFrom(_, _, _, _, _)
MatchFrom(pat, e, text, pos, groups) ==
    IF e > Len(pat) THEN [ok |-> TRUE, start |-> 0, end |-> pos, groups |-> groups]
    ELSE LET el == pat[e]
             Rest(n) == MatchFrom(pat, e + 1, text, pos + n,
                                  SetGroup(groups, el.cap, SubSeq(text, pos, pos + n - 1)))
         IN CASE el.k = "rep" ->
                   LET good == { n \in el.lo..RunIn(text, pos, el.set, el.hi) : Rest(n).ok }
                   IN IF good = {} THEN NoMatch
                      ELSE Rest(CHOOSE n \in good : \A o \in good : o <= n)
              [] el.k = "alt" ->
                   LET good == { w \in DOMAIN el.words :
                                   HasWordAt(text, pos, el.words[w]) /\ Rest(Len(el.words[w])).ok }
                   IN IF good = {} THEN NoMatch
                      ELSE Rest(Len(el.words[CHOOSE w \in good : \A o \in good : w <= o]))
              [] el.k = "wb" -> IF AtWordBoundary(text, pos) THEN Rest(0) ELSE NoMatch
              [] el.k = "open" ->
                   MatchFrom(pat, e + 1, text, pos, [groups EXCEPT ![el.cap] = <<pos>>])
              [] el.k = "close" ->
                   MatchFrom(pat, e + 1, text, pos,
                             [groups EXCEPT ![el.cap] = SubSeq(text, @[1], pos - 1)])
              [] el.k = "end" -> IF pos = Len(text) + 1 THEN Rest(0) ELSE NoMatch

\* pattern.match(text): the match at the start of the text
ReMatch(pat, text) == MatchFrom(pat, 1, text, 1, NoGroups)

\* pattern.search(text, from): the leftmost match at or after position from
RECURSIVE SearchFrom(_, _, _)
SearchFrom(pat, text, from) ==
    IF from > Len(text) + 1 THEN NoMatch
    ELSE LET m == MatchFrom(pat, 1, text, from, NoGroups)
         IN IF m.ok THEN [m EXCEPT !.start = from] ELSE SearchFrom(pat, text, from + 1)

\* pattern.search(text)
ReSearch(pat, text) == SearchFrom(pat, text, 1)

\* pattern.findall(text): the groups of the matches, left to right, not overlapping
RECURSIVE FindAllFrom(_, _, _)
FindAllFrom(pat, text, from) ==
    LET m == SearchFrom(pat, text, from)
    IN IF ~m.ok THEN <<>>
       ELSE <<m.groups>> \o FindAllFrom(pat, text, IF m.end > m.start THEN m.end ELSE m.end + 1)

FindAll(pat, text) == FindAllFrom(pat, text, 1)

(***************************************************************************)
(* DATE_PATTERNS (constants.py 13-33) and the text extract_date_enhanced   *)
(* searches (core.py 103-108)                                              *)
(***************************************************************************)
\* \s, and the separators [\.,/\-\s]
SpaceSet == {" ", "\t", "\n"}
SepSet == {".", ",", "/", "-"} \cup SpaceSet

MonthWords ==
    << <<"j","a","n","u","a","r">>, <<"f","e","b","r","u","a","r">>, <<"m","a","r","e","c">>,
       <<"a","p","r","i","l">>, <<"m","a","j">>, <<"j","u","n","i","j">>,
       <<"j","u","l","i","j">>, <<"a","v","g","u","s","t">>,
       <<"s","e","p","t","e","m","b","e","r">>, <<"o","k","t","o","b","e","r">>,
       <<"n","o","v","e","m","b","e","r">>, <<"d","e","c","e","m","b","e","r">>,
       <<"j","a","n">>, <<"f","e","b">>, <<"m","a","r">>, <<"a","p","r">>, <<"m","a","j">>,
       <<"j","u","n">>, <<"j","u","l">>, <<"a","v","g">>, <<"s","e","p">>, <<"o","k","t">>,
       <<"n","o","v">>, <<"d","e","c">> >>

DATE_PATTERNS ==
    << \* (\d{1,2})\s*[\.,/\-\s]+(\d{1,2})\s*[\.,/\-\s]+(\d{4})
       << Rep(DigitSet, 1, 2, 1), Rep(SpaceSet, 0, Unlimited, 0), Rep(SepSet, 1, Unlimited, 0),
          Rep(DigitSet, 1, 2, 2), Rep(SpaceSet, 0, Unlimited, 0), Rep(SepSet, 1, Unlimited, 0),
          Rep(DigitSet, 4, 4, 3) >>,
       \* (\d{4})\s*[\.,/\-\s]+(\d{1,2})\s*[\.,/\-\s]+(\d{1,2})
       << Rep(DigitSet, 4, 4, 1), Rep(SpaceSet, 0, Unlimited, 0), Rep(SepSet, 1, Unlimited, 0),
          Rep(DigitSet, 1, 2, 2), Rep(SpaceSet, 0, Unlimited, 0), Rep(SepSet, 1, Unlimited, 0),
          Rep(DigitSet, 1, 2, 3) >>,
       \* (\d{1,2})\.?\s*(januar|...|dec)\s*(\d{4}), IGNORECASE
       << Rep(DigitSet, 1, 2, 1), Rep({"."}, 0, 1, 0), Rep(SpaceSet, 0, Unlimited, 0),
          Alt(MonthWords, 2), Rep(SpaceSet, 0, Unlimited, 0), Rep(DigitSet, 4, 4, 3) >>,
       \* (\d{1,2})\s*\.\s*(\d{1,2})\s*\.\s*(\d{2,4})
       << Rep(DigitSet, 1, 2, 1), Rep(SpaceSet, 0, Unlimited, 0), Rep({"."}, 1, 1, 0),
          Rep(SpaceSet, 0, Unlimited, 0), Rep(DigitSet, 1, 2, 2),
          Rep(SpaceSet, 0, Unlimited, 0), Rep({"."}, 1, 1, 0),
          Rep(SpaceSet, 0, Unlimited, 0), Rep(DigitSet, 2, 4, 3) >>,
       \* (\d{1,2})\s+(\d{1,2})\s+(\d{4})
       << Rep(DigitSet, 1, 2, 1), Rep(SpaceSet, 1, Unlimited, 0), Rep(DigitSet, 1, 2, 2),
          Rep(SpaceSet, 1, Unlimited, 0), Rep(DigitSet, 4, 4, 3) >> >>

\* re.sub(r'[^\w\s\.,/\-:]', ' ', re.sub(r'\s+', ' ', text))
CleanedText(text) ==
    LET t == CollapseSpaces(text)
    IN [i \in DOMAIN t |->
          IF IsWordChar(t[i]) \/ t[i] \in SepSet \/ t[i] = ":" THEN t[i] ELSE " "]

\* the findall of every pattern on the cleaned text, pattern by pattern, as the
\* loops of core.py 107-109 go through them
RECURSIVE MatchesFrom(_, _)
MatchesFrom(cleaned_text, i) ==
    IF i > Len(DATE_PATTERNS) THEN <<>>
    ELSE LET found == FindAll(DATE_PATTERNS[i], cleaned_text)
         IN [n \in DOMAIN found |-> [i |-> i - 1, g |-> found[n]]]
            \o MatchesFrom(cleaned_text, i + 1)

DateMatches(text) == MatchesFrom(CleanedText(text), 1)

\* extract_date_enhanced(text)
FoundDates(ms) ==
    LET valid == SelectSeq(ms, ValidDate)
    IN [e \in DOMAIN valid |->
          [formatted |-> Formatted(valid[e]), year |-> YearInt(YearOf(valid[e]))]]

ExtractDateEnhanced(text) ==
    LET fd == FoundDates(DateMatches(text))
    IN IF fd # <<>> THEN MostRecent(fd) ELSE Today

(***************************************************************************)
(* extract_date_enhanced on a text (core.py 103-141): the patterns are     *)
(* searched on the cleaned text, then the loop goes through the matches.   *)
(***************************************************************************)
\* cleaned_text and the findall of the patterns (core.py 103-108)
DateScan ==
    /\ fn = "extract_date_enhanced"
    /\ dk = 0
    /\ dmatches' = DateMatches(arg)
    /\ dk' = 1
    /\ UNCHANGED <<found_dates, dret>>
    /\ UNCHANGED <<groupVars, renameVars, uniqueVars, callVars, targetVars>>

DateTextNext == DateScan \/ DateMatch \/ DateReturn

\* Dates as documents write them: day, month and year in digits with one of the
\* separators, the ISO order, or the month by its Slovenian name.
DayTexts == { <<"5">>, <<"0","5">>, <<"3","1">> }
MonthTexts == { <<"9">>, <<"0","9">>, <<"1","2">> }
YearTexts4 == { <<"2","0","2","5">>, <<"1","9","9","9">> }
YearTexts2 == { <<"2","3">>, <<"5","0">>, <<"9","9">> }
SepTexts == { <<".">>, <<"/">>, <<"-">>, <<".", " ">> }
MonthNameTexts ==
    { [name |-> <<"s","e","p">>, m |-> <<"0","9">>], [name |-> <<"M","a","j">>, m |-> <<"0","5">>],
      [name |-> <<"d","e","c","e","m","b","e","r">>, m |-> <<"1","2">>] }

WrittenDates ==
    { [shape |-> "dmy", d |-> d, m |-> m, y |-> y, sep |-> sp, name |-> <<>>] :
        d \in DayTexts, m \in MonthTexts, y \in YearTexts4 \cup YearTexts2, sp \in SepTexts }
    \cup { [shape |-> "iso", d |-> d, m |-> m, y |-> y, sep |-> sp, name |-> <<>>] :
        d \in DayTexts, m \in MonthTexts, y \in YearTexts4, sp \in {<<"-">>, <<".">>} }
    \cup { [shape |-> "name", d |-> d, m |-> mn.m, y |-> y, sep |-> sp, name |-> mn.name] :
        d \in DayTexts, mn \in MonthNameTexts, y \in YearTexts4, sp \in {<<" ">>, <<".", " ">>} }

TextOf(w) ==
    CASE w.shape = "dmy" -> w.d \o w.sep \o w.m \o w.sep \o w.y
      [] w.shape = "iso" -> w.y \o w.sep \o w.m \o w.sep \o w.d
      [] w.shape = "name" -> w.d \o w.sep \o w.name \o <<" ">> \o w.y

\* what stands before the date in the text
Prefixes == { <<>>, <<"D","n","e",":"," ">>, <<"(">> }

\* texts of two dates on two lines
PairDates ==
    { w \in WrittenDates :
        /\ w.d = <<"5">> \/ (w.d = <<"3","1">> /\ w.shape = "dmy" /\ w.y = <<"2","0","2","5">>)
        /\ w.m \in {<<"9">>, <<"0","9">>}
        /\ w.sep \in {<<".">>, <<"-">>, <<" ">>}
        /\ w.y \in {<<"2","0","2","5">>, <<"1","9","9","9">>, <<"2","3">>} }

DateTexts ==
    { p \o TextOf(w) : p \in Prefixes, w \in WrittenDates }
    \cup { TextOf(w) \o <<"\n">> \o TextOf(v) : w \in PairDates, v \in PairDates }

InitDateText ==
    /\ fn = "extract_date_enhanced"
    /\ arg \in DateTexts
    /\ ret = <<>>
    /\ dmatches = <<>>
    /\ dk = 0
    /\ found_dates = <<>>
    /\ dret = <<>>
    /\ GroupIdle /\ RenameIdle /\ UniqueIdle /\ TargetIdle

SpecDateText == InitDateText /\ [][DateTextNext]_vars

\* the date a written date stands for, as DD-MM-YYYY: day and month padded to two
\* digits, a year of two digits in the century the documented rule gives it
DateWritten(w) ==
    ZFill2(w.d) \o <<"-">> \o ZFill2(w.m) \o <<"-">>
        \o (IF Len(w.y) = 2 THEN Itoa(YearIntBelow50(w.y)) ELSE w.y)

\* C11: for every supported shape of a date (day, month, year with ".", "/" or "-"
\* and a year of two or four digits, ISO order, month by name) the extractor returns
\* the date as DD-MM-YYYY with day and month padded with zeros: "5.9.2025" gives
\* "05-09-2025" and "05/09/23" gives "05-09-2023".
C11_ReturnsPaddedDate ==
    dret # <<>> =>
        \A w \in WrittenDates : \A p \in Prefixes :
            arg = p \o TextOf(w) => dret = DateWritten(w)

\* C12: of several valid dates in a text the one of the largest normalized year is
\* returned, and of those of the same largest year the one found first (in the order
\* of the patterns, then of the text).
C12_LargestYearFirstFound ==
    (dret # <<>> /\ found_dates # <<>>) =>
        \E e \in DOMAIN found_dates :
            /\ dret = found_dates[e].formatted
            /\ \A o \in DOMAIN found_dates : found_dates[o].year <= found_dates[e].year
            /\ \A o \in 1..(e - 1) : found_dates[o].year < found_dates[e].year

\* a text of two different dates of the same year, and one of an older year before
\* a newer one, has been decided
C12_Witness ==
    /\ fn = "extract_date_enhanced"
    /\ dret # <<>>
    /\ \E e, o \in DOMAIN found_dates :
          /\ e < o
          /\ found_dates[e].year = found_dates[o].year
          /\ found_dates[e].formatted # found_dates[o].formatted
          /\ \A x \in DOMAIN found_dates : found_dates[x].year <= found_dates[e].year
          /\ dret = found_dates[e].formatted

(***************************************************************************)
(* extract_date_with_targeted_ocr (core.py 160-206)                        *)
(***************************************************************************)
\* regions_to_try (core.py 174-179) and configs (core.py 184-189), by name
REGIONS == <<"bottom_right", "top_right", "bottom_left", "center_bottom">>
ConfigsWhitelistFirst == <<"whitelist", "--psm 6", "--psm 8", "--psm 13">>
CONFIGS == <<"--psm 6", "--psm 8", "--psm 13", "whitelist">>

\* what the engine reads on the page and on a region of it
NoDateText == <<"P","o","d","p","i","s",":"," ","J","a","n">>
TodayText == <<"1",".","1","1",".","2","0","2","6">>
PageTexts == { <<>>, NoDateText, TodayText, <<"5",".","9",".","2","0","2","5">> }
RegionTexts == { <<>>, <<" ", "\n">>, NoDateText, TodayText, <<"5",".","9",".","2","0","2","5">>, <<"2","0","2","4","-","1","0","-","0","6">> }

\* the whole-page text is searched first (core.py 166-169)
TargetStart ==
    /\ tpc = "start"
    /\ \E date \in {ExtractDateEnhanced(timg.full_text)} :
          IF date # <<>> /\ date # Today
          THEN tret' = date /\ tpc' = "done"
          ELSE tpc' = "open" /\ UNCHANGED tret
    /\ UNCHANGED <<timg, tregion, tconfig, tried, tskipped>>
    /\ UNCHANGED <<groupVars, renameVars, uniqueVars, dateVars, callVars>>

\* Image.open(img_path) (core.py 171-173): its exception is caught by the outer try
\* and today's date returned (core.py 203-206)
TargetOpen ==
    /\ tpc = "open"
    /\ IF timg.opens
       THEN tpc' = "region" /\ UNCHANGED tret
       ELSE tpc' = "done" /\ tret' = Today
    /\ UNCHANGED <<timg, tregion, tconfig, tried, tskipped>>
    /\ UNCHANGED <<groupVars, renameVars, uniqueVars, dateVars, callVars>>

\* the loop over the regions (core.py 180-189, 201-202, 206): the crop may raise,
\* which skips the region; after the last region today's date is returned
TargetRegion ==
    /\ tpc = "region"
    /\ IF tregion > Len(REGIONS)
       THEN /\ tpc' = "done" /\ tret' = Today
            /\ UNCHANGED <<tregion, tconfig, tskipped>>
       ELSE \E raised \in BOOLEAN :
               IF raised
               THEN /\ tskipped' = tskipped \cup {REGIONS[tregion]}
                    /\ tregion' = tregion + 1
                    /\ UNCHANGED <<tpc, tconfig, tret>>
               ELSE /\ tpc' = "config" /\ tconfig' = 1
                    /\ UNCHANGED <<tregion, tskipped, tret>>
    /\ UNCHANGED <<timg, tried>>
    /\ UNCHANGED <<groupVars, renameVars, uniqueVars, dateVars, callVars>>

\* what came of the sub-OCR text as far as the caller can tell
SubOcrDate(raised, rtext) ==
    IF raised \/ Strip(rtext) = <<>> THEN <<>>
    ELSE IF ExtractDateEnhanced(rtext) \in {<<>>, Today} THEN <<>>
         ELSE ExtractDateEnhanced(rtext)

\* the loop over the configs (core.py 190-200): one sub-OCR call; a call that
\* raises or reads nothing is skipped, the first date other than today's returned
TargetSubOcr ==
    /\ tpc = "config"
    /\ IF tconfig > Len(CONFIGS)
       THEN /\ tpc' = "region" /\ tregion' = tregion + 1
            /\ UNCHANGED <<tconfig, tried, tret>>
       ELSE \E raised \in BOOLEAN : \E rtext \in RegionTexts :
               \E date \in {SubOcrDate(raised, rtext)} :
                  /\ (raised => rtext = <<>>)
                  /\ tried' = Append(tried, [region |-> REGIONS[tregion],
                                             config |-> CONFIGS[tconfig],
                                             date |-> date])
                  /\ IF date # <<>>
                     THEN tret' = date /\ tpc' = "done" /\ UNCHANGED tconfig
                     ELSE tconfig' = tconfig + 1 /\ UNCHANGED <<tpc, tret>>
                  /\ UNCHANGED tregion
    /\ UNCHANGED <<timg, tskipped>>
    /\ UNCHANGED <<groupVars, renameVars, uniqueVars, dateVars, callVars>>

TargetNext == TargetStart \/ TargetOpen \/ TargetRegion \/ TargetSubOcr

InitTarget ==
    /\ timg \in [full_text : PageTexts, opens : BOOLEAN]
    /\ tpc = "start"
    /\ tregion = 1
    /\ tconfig = 1
    /\ tried = <<>>
    /\ tskipped = {}
    /\ tret = <<>>
    /\ GroupIdle /\ RenameIdle /\ UniqueIdle /\ DateIdle /\ CallIdle

SpecTarget == InitTarget /\ [][TargetNext]_vars

\* the whole-page text holds a valid date
PageHasDate == FoundDates(DateMatches(timg.full_text)) # <<>>

\* C13: the re-OCR of regions runs only when the whole-page extraction found no
\* valid date; whenever the whole-page text holds a valid date, that date is
\* returned without any re-OCR, also when it is today's date.
C13_ReOcrOnlyWithoutDate ==
    PageHasDate =>
        /\ tried = <<>>
        /\ tpc \notin {"open", "region", "config"}
        /\ tret # <<>> => tret = ExtractDateEnhanced(timg.full_text)

\* the place of a sub-OCR call in the documented order: regions bottom-right,
\* top-right, bottom-left, center-bottom, and in each region psm 6, psm 8, psm 13,
\* whitelist
PlaceOf(names, n) == CHOOSE i \in DOMAIN names : names[i] = n
AttemptPlace(a) ==
    4 * (PlaceOf(<<"bottom_right", "top_right", "bottom_left", "center_bottom">>, a.region) - 1)
      + PlaceOf(<<"--psm 6", "--psm 8", "--psm 13", "whitelist">>, a.config)

\* C14: the sub-OCR calls are made in the fixed order of regions and configs; the
\* date of the first call that yields a date other than the fallback is returned
\* and no call is made after it; a call that raises or reads nothing is skipped;
\* if every call fails today's date is returned.
C14_FirstAttemptInOrderWins ==
    /\ \A k \in DOMAIN tried :
          /\ k > 1 => AttemptPlace(tried[k - 1]) < AttemptPlace(tried[k])
          /\ \A o \in 1..(AttemptPlace(tried[k]) - 1) :
                \/ \E j \in 1..(k - 1) : AttemptPlace(tried[j]) = o
                \/ REGIONS[((o - 1) \div 4) + 1] \in tskipped
          /\ tried[k].date # <<>> => (k = Len(tried) /\ tret = tried[k].date)
    /\ (/\ tret # <<>>
        /\ ExtractDateEnhanced(timg.full_text) = Today
        /\ \A k \in DOMAIN tried : tried[k].date = <<>>) =>
          /\ tret = Today
          /\ timg.opens =>
                \A o \in 1..16 :
                   \/ \E j \in DOMAIN tried : AttemptPlace(tried[j]) = o
                   \/ REGIONS[((o - 1) \div 4) + 1] \in tskipped

\* calls that raised or read nothing were skipped and a later call, in a later
\* region, gave the date that was returned
C14_Witness ==
    /\ Len(tried) >= 6
    /\ tried[Len(tried)].date # <<>>
    /\ tret = tried[Len(tried)].date
    /\ tskipped # {}

(***************************************************************************)
(* detect_doc_type_worker (core.py 37-50)                                  *)
(*                                                                         *)
(* The alphabet of the model is ASCII: the letter C with caron of the      *)
(* labels and keywords is written C.                                       *)
(***************************************************************************)
IZJAVA == <<"I","Z","J","A","V","A">>
RACUN == <<"R","A","C","U","N">>
PONUDBA == <<"P","O","N","U","D","B","A">>
NAROCILNICA == <<"N","A","R","O","C","I","L","N","I","C","A">>
DOBAVNICA == <<"D","O","B","A","V","N","I","C","A">>
ODLOCBA == <<"O","D","L","O","C","B","A">>
POTRDILO == <<"P","O","T","R","D","I","L","O">>
OBVESTILO == <<"O","B","V","E","S","T","I","L","O">>

\* \bWORD\b, IGNORECASE
Keyword(w) == <<WordBoundary, Literal(w), WordBoundary>>

\* a slip: the declaration is tried last, as the documented order has it
DocTypePatternsDeclarationLast ==
    << [label |-> POGODBA, rx |-> <<WordBoundary, Literal(<<"P","O","G","O","D","B">>),
                                    Rep({"A", "O", "a", "o"}, 1, 1, 0), WordBoundary>>],
       [label |-> RACUN, rx |-> <<WordBoundary, Alt(<<RACUN, <<"F","A","K","T","U","R","A">>>>, 1), WordBoundary>>],
       [label |-> PONUDBA, rx |-> Keyword(PONUDBA)],
       [label |-> NAROCILNICA, rx |-> Keyword(NAROCILNICA)],
       [label |-> DOBAVNICA, rx |-> Keyword(DOBAVNICA)],
       [label |-> SKLEP, rx |-> Keyword(SKLEP)],
       [label |-> ODLOCBA, rx |-> Keyword(ODLOCBA)],
       [label |-> POTRDILO, rx |-> Keyword(POTRDILO)],
       [label |-> OBVESTILO, rx |-> Keyword(OBVESTILO)],
       [label |-> IZJAVA, rx |-> Keyword(IZJAVA)] >>

\* DOC_TYPE_PATTERNS (constants.py 67-78)
DOC_TYPE_PATTERNS ==
    << [label |-> IZJAVA, rx |-> Keyword(IZJAVA)],
       [label |-> POGODBA, rx |-> <<WordBoundary, Literal(<<"P","O","G","O","D","B">>),
                                    Rep({"A", "O", "a", "o"}, 1, 1, 0), WordBoundary>>],
       [label |-> RACUN, rx |-> <<WordBoundary, Alt(<<RACUN, <<"F","A","K","T","U","R","A">>>>, 1), WordBoundary>>],
       [label |-> PONUDBA, rx |-> Keyword(PONUDBA)],
       [label |-> NAROCILNICA, rx |-> Keyword(NAROCILNICA)],
       [label |-> DOBAVNICA, rx |-> Keyword(DOBAVNICA)],
       [label |-> SKLEP, rx |-> Keyword(SKLEP)],
       [label |-> ODLOCBA, rx |-> Keyword(ODLOCBA)],
       [label |-> POTRDILO, rx |-> Keyword(POTRDILO)],
       [label |-> OBVESTILO, rx |-> Keyword(OBVESTILO)] >>

\* text.splitlines()
RECURSIVE LineLen(_)
LineLen(s) == IF s = <<>> \/ Head(s) = "\n" THEN 0 ELSE 1 + LineLen(Tail(s))

RECURSIVE SplitLines(_)
SplitLines(text) ==
    IF text = <<>> THEN <<>>
    ELSE LET n == LineLen(text)
         IN <<SubSeq(text, 1, n)>> \o SplitLines(SubSeq(text, n + 2, Len(text)))

\* [ln.strip() for ln in text.splitlines() if ln.strip()]
NonEmptyLines(text) ==
    LET stripped == [i \in DOMAIN SplitLines(text) |-> Strip(SplitLines(text)[i])]
    IN SelectSeq(stripped, LAMBDA ln : ln # <<>>)

\* sep.join(lines)
RECURSIVE Join(_, _)
Join(sep, lines) ==
    IF lines = <<>> THEN <<>>
    ELSE IF Len(lines) = 1 THEN lines[1]
    ELSE lines[1] \o sep \o Join(sep, Tail(lines))

\* lines[:n]
FirstLines(lines, n) == SubSeq(lines, 1, IF Len(lines) < n THEN Len(lines) ELSE n)

\* lines[-n:]
LastLines(lines, n) ==
    SubSeq(lines, IF Len(lines) < n THEN 1 ELSE Len(lines) - n + 1, Len(lines))

\* the header is the first 20 non-empty lines (core.py 43)
HeaderLineCount == 20

\* for label, rx in DOC_TYPE_PATTERNS: if rx.search(t): return label
FirstLabelIn(t) ==
    LET hits == { p \in DOMAIN DOC_TYPE_PATTERNS : ReSearch(DOC_TYPE_PATTERNS[p].rx, t).ok }
    IN IF hits = {} THEN <<>>
       ELSE DOC_TYPE_PATTERNS[CHOOSE p \in hits : \A o \in hits : p <= o].label

\* a slip: the full text is searched before the header
DetectDocTypeBodyFirst(text) ==
    LET head == Join(<<"\n">>, FirstLines(NonEmptyLines(text), HeaderLineCount))
    IN IF FirstLabelIn(text) # <<>> THEN FirstLabelIn(text)
       ELSE IF FirstLabelIn(head) # <<>> THEN FirstLabelIn(head)
       ELSE NEZNANO

\* detect_doc_type_worker
DetectDocType(text) ==
    LET head == Join(<<"\n">>, FirstLines(NonEmptyLines(text), HeaderLineCount))
    IN IF FirstLabelIn(head) # <<>> THEN FirstLabelIn(head)
       ELSE IF FirstLabelIn(text) # <<>> THEN FirstLabelIn(text)
       ELSE NEZNANO

\* Pages of the model: filler lines, a line x, filler lines, a line y; the lines may
\* stand apart by blank lines. x and y name what is written on them.
FillerLine == <<"a", "b">>
BlankLine == <<" ">>

Fill(n, blanks) ==
    IF blanks THEN [i \in 1..(2 * n) |-> IF i % 2 = 1 THEN FillerLine ELSE BlankLine]
    ELSE [i \in 1..n |-> FillerLine]

PageLines(page) ==
    Fill(page.a, page.blanks) \o <<page.x.text>> \o Fill(page.b, page.blanks) \o <<page.y.text>>

PageText(page) == Join(<<"\n">>, PageLines(page))

\* the lines written on the pages, with the labels whose keyword each holds
KeywordLines ==
    { [text |-> <<" "," ","I","z","j","a","v","a">>, labels |-> {IZJAVA}],
      [text |-> <<"P","O","G","O","D","B","A"," ","s","t","."," ","5">>, labels |-> {POGODBA}],
      [text |-> <<"o"," ","p","o","g","o","d","b","o",".">>, labels |-> {POGODBA}],
      [text |-> <<"F","a","k","t","u","r","a">>, labels |-> {RACUN}],
      [text |-> <<"S","K","L","E","P">>, labels |-> {SKLEP}],
      [text |-> <<"O","d","l","o","c","b","a"," ","i","n"," ","s","k","l","e","p">>, labels |-> {ODLOCBA, SKLEP}],
      [text |-> <<"o","b","v","e","s","t","i","l","o","-","i","z","j","a","v","a">>, labels |-> {OBVESTILO, IZJAVA}],
      [text |-> <<"P","O","G","O","D","B","A","X"," ","1","i","z","j","a","v","a">>, labels |-> {}],
      [text |-> <<"x">>, labels |-> {}] }

\* where x and y stand: both in the header, y as line 20 or 21, x as line 20 or 21
Layouts == { <<0, 0>>, <<0, 18>>, <<0, 19>>, <<19, 0>>, <<20, 0>> }

DocPages ==
    { [a |-> l[1], b |-> l[2], x |-> x, y |-> y, blanks |-> bl] :
        l \in Layouts, x \in KeywordLines, y \in KeywordLines, bl \in BOOLEAN }

CallDetectDocType ==
    /\ fn = "detect_doc_type_worker"
    /\ ret = <<>>
    /\ ret' = DetectDocType(PageText(arg))
    /\ UNCHANGED <<fn, arg>>
    /\ UNCHANGED <<groupVars, renameVars, uniqueVars, dateVars, targetVars>>

InitDocType ==
    /\ fn = "detect_doc_type_worker"
    /\ arg \in DocPages
    /\ ret = <<>>
    /\ GroupIdle /\ RenameIdle /\ UniqueIdle /\ DateIdle /\ TargetIdle

SpecDocType == InitDocType /\ [][CallDetectDocType]_vars

\* the labels written in the header of a page (its first 20 non-empty lines) and
\* anywhere on it
HeaderLabels(page) ==
    (IF page.a + 1 <= 20 THEN page.x.labels ELSE {})
        \cup (IF page.a + page.b + 2 <= 20 THEN page.y.labels ELSE {})
AllLabels(page) == page.x.labels \cup page.y.labels

\* the documented priority: contract, invoice, offer, purchase order, delivery note,
\* decision, resolution, confirmation, notice, declaration
DocumentedOrder ==
    <<POGODBA, RACUN, PONUDBA, NAROCILNICA, DOBAVNICA, SKLEP, ODLOCBA, POTRDILO,
      OBVESTILO, IZJAVA>>

EarliestOf(labels) ==
    DocumentedOrder[CHOOSE i \in DOMAIN DocumentedOrder :
                       /\ DocumentedOrder[i] \in labels
                       /\ \A o \in 1..(i - 1) : DocumentedOrder[o] \notin labels]

\* C15: of the labels whose keyword the searched text holds, the one earliest in
\* the documented priority order is returned (a header with the contract and the
\* declaration keyword is a contract).
C15_DocumentedPriority ==
    (fn = "detect_doc_type_worker" /\ ret # <<>>) =>
        /\ HeaderLabels(arg) # {} => ret = EarliestOf(HeaderLabels(arg))
        /\ (HeaderLabels(arg) = {} /\ AllLabels(arg) # {}) => ret = EarliestOf(AllLabels(arg))

\* C16: a label whose keyword is in the header is returned in preference to every
\* label whose keyword is only in the body, whatever their order in the list; the
\* body decides only if the header holds no keyword; without any keyword the label
\* is NEZNANO.
C16_HeaderBeforeBody ==
    (fn = "detect_doc_type_worker" /\ ret # <<>>) =>
        /\ HeaderLabels(arg) # {} => ret \in HeaderLabels(arg)
        /\ (HeaderLabels(arg) = {} /\ AllLabels(arg) # {}) => ret \in AllLabels(arg)
        /\ AllLabels(arg) = {} <=> ret = NEZNANO

\* a label later in the list stood in the header, one earlier in the list only in
\* the body, behind blank lines, and the label of the header was returned
C16_Witness ==
    /\ fn = "detect_doc_type_worker"
    /\ arg.blanks
    /\ HeaderLabels(arg) = {SKLEP}
    /\ IZJAVA \in AllLabels(arg)
    /\ ret = SKLEP

(***************************************************************************)
(* extract_name_worker, extract_name_from_text_worker (core.py 567-595)    *)
(***************************************************************************)
\* [A-Z][a-z]+ as group cap (ASCII part of the classes)
NameWord(cap) == <<Open(cap), Rep(UpperSet, 1, 1, 0), Rep(LowerSet, 1, Unlimited, 0), Close(cap)>>

\* NAME_PATTERNS (constants.py 37-43); the optional third word of the first pattern
\* is tried first, as the greedy (?:...)? does
NAME_PATTERNS ==
    << NameWord(1) \o <<Rep(SpaceSet, 1, Unlimited, 0)>> \o NameWord(2)
         \o <<Rep(SpaceSet, 1, Unlimited, 0)>> \o NameWord(3) \o <<EndOfText>>,
       NameWord(1) \o <<Rep(SpaceSet, 1, Unlimited, 0)>> \o NameWord(2) \o <<EndOfText>>,
       << Rep(UpperSet, 2, Unlimited, 1), Rep(SpaceSet, 1, Unlimited, 0),
          Rep(UpperSet, 2, Unlimited, 2), EndOfText >> >>

\* extract_name_from_text_worker
ExtractNameFromText(text) ==
    LET hits == { p \in DOMAIN NAME_PATTERNS : ReMatch(NAME_PATTERNS[p], text).ok }
    IN IF hits = {} THEN NEZNANO_IME
       ELSE LET g == ReMatch(NAME_PATTERNS[CHOOSE p \in hits : \A o \in hits : p <= o], text).groups
            IN IF g[3] # <<>> THEN g[1] \o <<"_">> \o g[3] \o <<"_">> \o g[2]
               ELSE g[1] \o <<"_">> \o g[2]

\* NAME_INDICATORS (constants.py 45-48; the model writes s for s with caron)
NAME_INDICATORS ==
    << <<"p","r","i","i","m","e","k"," ","i","n"," ","i","m","e">>, <<"i","m","e"," ","i","n"," ","p","r","i","i","m","e","k">>, <<"i","m","e",":">>, <<"p","r","i","i","m","e","k",":">>, <<"p","o","d","p","i","s","n","i","k">>,
       <<"p","o","d","p","i","s","u","j","e">>, <<"i","z","v","r","s","i","t","e","l","j">>, <<"d","i","r","e","k","t","o","r">>, <<"v","o","d","j","a">> >>

\* ind in ll
RECURSIVE Contains(_, _)
Contains(s, w) ==
    IF Len(s) < Len(w) THEN FALSE
    ELSE SubSeq(s, 1, Len(w)) = w \/ Contains(Tail(s), w)

HasIndicator(line) ==
    \E n \in DOMAIN NAME_INDICATORS : Contains(Lower(line), NAME_INDICATORS[n])

\* line.split(':', 1)[1], or nothing when the line has no colon
RECURSIVE AfterColon(_)
AfterColon(line) ==
    IF line = <<>> THEN [found |-> FALSE, rest |-> <<>>]
    ELSE IF Head(line) = ":" THEN [found |-> TRUE, rest |-> Tail(line)]
    ELSE AfterColon(Tail(line))

\* what one line with an indicator gives (core.py 573-579): the name behind its
\* colon, else the name on the next line
NameAtIndicator(lines, i) ==
    LET parts == AfterColon(lines[i])
        name == IF parts.found THEN ExtractNameFromText(Strip(parts.rest)) ELSE NEZNANO_IME
    IN IF name # NEZNANO_IME THEN name
       ELSE IF i + 1 <= Len(lines) THEN ExtractNameFromText(lines[i + 1])
       ELSE NEZNANO_IME

\* the first name a loop over lines finds, NEZNANO_IME if it ends without one
FirstName(names) ==
    LET hits == { i \in DOMAIN names : names[i] # NEZNANO_IME }
    IN IF hits = {} THEN NEZNANO_IME ELSE names[CHOOSE i \in hits : \A o \in hits : i <= o]

IndicatorTier(lines) ==
    FirstName([i \in 1..(IF Len(lines) < 20 THEN Len(lines) ELSE 20) |->
                 IF HasIndicator(lines[i]) THEN NameAtIndicator(lines, i) ELSE NEZNANO_IME])

LinesTier(lines) == FirstName([i \in DOMAIN lines |-> ExtractNameFromText(lines[i])])

\* a slip: the last lines are scanned before the first lines
ExtractNameLastLinesFirst(text) ==
    LET lines == NonEmptyLines(text)
    IN IF IndicatorTier(lines) # NEZNANO_IME THEN IndicatorTier(lines)
       ELSE IF LinesTier(LastLines(lines, 8)) # NEZNANO_IME THEN LinesTier(LastLines(lines, 8))
       ELSE LinesTier(FirstLines(lines, 15))

\* extract_name_worker
ExtractName(text) ==
    LET lines == NonEmptyLines(text)
    IN IF IndicatorTier(lines) # NEZNANO_IME THEN IndicatorTier(lines)
       ELSE IF LinesTier(FirstLines(lines, 15)) # NEZNANO_IME
            THEN LinesTier(FirstLines(lines, 15))
       ELSE LinesTier(LastLines(lines, 8))

\* The lines written on the pages: name is the name a name-shaped line stands for,
\* ind says that the line holds an indicator phrase, after is the name behind its
\* colon (<<>>: none).
NoName == <<>>
NameLines ==
    { [text |-> <<"J","a","n","e","z"," ","N","o","v","a","k">>, name |-> <<"J","a","n","e","z","_","N","o","v","a","k">>, ind |-> FALSE, after |-> NoName],
      [text |-> <<"A","n","a"," ","M","a","r","i","j","a"," "," ","K","o","s">>, name |-> <<"A","n","a","_","K","o","s","_","M","a","r","i","j","a">>, ind |-> FALSE, after |-> NoName],
      [text |-> <<"J","A","N","E","Z"," ","K","O","S">>, name |-> <<"J","A","N","E","Z","_","K","O","S">>, ind |-> FALSE, after |-> NoName],
      [text |-> <<"J","a","n","e","z"," ","n","o","v","a","k">>, name |-> NoName, ind |-> FALSE, after |-> NoName],
      [text |-> <<"D","i","r","e","k","t","o","r",":"," ","I","v","a","n"," ","C","a","n","k","a","r">>, name |-> NoName, ind |-> TRUE, after |-> <<"I","v","a","n","_","C","a","n","k","a","r">>],
      [text |-> <<"p","o","d","p","i","s","n","i","k">>, name |-> NoName, ind |-> TRUE, after |-> NoName],
      [text |-> <<"I","m","e",":"," ">>, name |-> NoName, ind |-> TRUE, after |-> NoName],
      [text |-> <<"P","r","i","i","m","e","k"," ","i","n"," ","i","m","e",":"," ","1","2",":","3","0">>, name |-> NoName, ind |-> TRUE, after |-> NoName],
      [text |-> <<"V","o","d","j","a"," ","O","d","d","e","l","k","a">>, name |-> <<"V","o","d","j","a","_","O","d","d","e","l","k","a">>, ind |-> TRUE, after |-> NoName],
      [text |-> <<"D","a","t","u","m",":"," ","J","a","n"," ","O","b","l","a","k">>, name |-> NoName, ind |-> FALSE, after |-> NoName] }

FillerNameLine == [text |-> FillerLine, name |-> NoName, ind |-> FALSE, after |-> NoName]

\* a filler lines, the line x, b filler lines, the line y, c filler lines
NameLayouts ==
    { <<0, 0, 0>>, <<14, 0, 0>>, <<15, 0, 9>>, <<19, 0, 0>>, <<20, 0, 0>>, <<0, 15, 0>>,
      <<0, 15, 8>> }

NamePages ==
    { [a |-> l[1], b |-> l[2], c |-> l[3], x |-> x, y |-> y] :
        l \in NameLayouts, x \in NameLines, y \in NameLines }

NamePageLines(page) ==
    [i \in 1..page.a |-> FillerNameLine] \o <<page.x>>
        \o [i \in 1..page.b |-> FillerNameLine] \o <<page.y>>
        \o [i \in 1..page.c |-> FillerNameLine]

NamePageText(page) ==
    Join(<<"\n">>, [i \in DOMAIN NamePageLines(page) |-> NamePageLines(page)[i].text])

CallExtractName ==
    /\ fn = "extract_name_worker"
    /\ ret = <<>>
    /\ ret' = ExtractName(NamePageText(arg))
    /\ UNCHANGED <<fn, arg>>
    /\ UNCHANGED <<groupVars, renameVars, uniqueVars, dateVars, targetVars>>

InitName ==
    /\ fn = "extract_name_worker"
    /\ arg \in NamePages
    /\ ret = <<>>
    /\ GroupIdle /\ RenameIdle /\ UniqueIdle /\ DateIdle /\ TargetIdle

SpecName == InitName /\ [][CallExtractName]_vars

\* the name tier (a) yields at line i of the page: the name behind the colon of an
\* indicator line, else the name-shaped line that follows it
IndicatorName(ls, i) ==
    IF ~ls[i].ind THEN NoName
    ELSE IF ls[i].after # NoName THEN ls[i].after
    ELSE IF i + 1 <= Len(ls) THEN ls[i + 1].name
    ELSE NoName

\* the lines of the page at which each tier yields a name
TierA(ls) == { i \in DOMAIN ls : i <= 20 /\ IndicatorName(ls, i) # NoName }
TierB(ls) == { i \in DOMAIN ls : i <= 15 /\ ls[i].name # NoName }
TierC(ls) == { i \in DOMAIN ls : i > Len(ls) - 8 /\ ls[i].name # NoName }

Lowest(S) == CHOOSE i \in S : \A o \in S : i <= o

\* C17: the tiers are applied in strict priority: (a) indicator lines among the
\* first 20 lines, (b) a name-shaped line among the first 15 lines, (c) a
\* name-shaped line among the last 8 lines; the name of the highest tier that
\* yields one is returned, and NEZNANO_IME if and only if no tier yields a name.
C17_NameTiers ==
    (fn = "extract_name_worker" /\ ret # <<>>) =>
        LET ls == NamePageLines(arg)
        IN /\ TierA(ls) # {} => ret = IndicatorName(ls, Lowest(TierA(ls)))
           /\ (TierA(ls) = {} /\ TierB(ls) # {}) => ret = ls[Lowest(TierB(ls))].name
           /\ (TierA(ls) = {} /\ TierB(ls) = {} /\ TierC(ls) # {}) =>
                 ret = ls[Lowest(TierC(ls))].name
           /\ (TierA(ls) \cup TierB(ls) \cup TierC(ls) = {}) <=> ret = NEZNANO_IME

\* a page whose first 15 lines and whose last 8 lines both hold a name-shaped line,
\* without an indicator: the name of the first lines was returned
C17_Witness ==
    /\ fn = "extract_name_worker"
    /\ LET ls == NamePageLines(arg)
       IN /\ TierA(ls) = {}
          /\ TierB(ls) # {} /\ TierC(ls) # {}
          /\ ls[Lowest(TierB(ls))].name # ls[Lowest(TierC(ls))].name
          /\ ret = ls[Lowest(TierB(ls))].name

(***************************************************************************)
(* extract_parties_worker (core.py 52-58)                                  *)
(***************************************************************************)
\* COMPANY_RE (core.py 24), IGNORECASE, ASCII part of its classes:
\* \b[A-Z][A-Za-z0-9\-. ]+\bd\.o\.o\.\b ; the whole match is group 1
COMPANY_RE ==
    << Open(1), WordBoundary, Rep(UpperSet \cup LowerSet, 1, 1, 0),
       Rep(UpperSet \cup LowerSet \cup DigitSet \cup {"-", ".", " "}, 1, Unlimited, 0),
       WordBoundary, Literal(<<"d",".","o",".","o",".">>), WordBoundary, Close(1) >>

\* COMPANY_RE.findall(text)
CompanyHits(text) ==
    LET found == FindAll(COMPANY_RE, text)
    IN [n \in DOMAIN found |-> found[n][1]]

\* insert x into a sorted list without duplicates
RECURSIVE InsertName(_, _)
InsertName(names, x) ==
    IF names = <<>> THEN <<x>>
    ELSE IF StrCmp(x, Head(names)) = "eq" THEN names
    ELSE IF StrCmp(x, Head(names)) = "lt" THEN <<x>> \o names
    ELSE <<Head(names)>> \o InsertName(Tail(names), x)

\* sorted(set(comps))
RECURSIVE SortedSet(_)
SortedSet(comps) ==
    IF comps = <<>> THEN <<>>
    ELSE InsertName(SortedSet(Tail(comps)), Head(comps))

\* the return value None
NoneValue == <<"None">>

\* extract_parties_worker
ExtractParties(text) ==
    LET comps == CompanyHits(text)
        first4 == FirstLines(comps, 4)
        normalized == [n \in DOMAIN first4 |-> NormalizeKey(first4[n])]
        kept == FirstLines(SortedSet(normalized), 2)
    IN IF comps = <<>> THEN NoneValue
       ELSE IF kept # <<>> THEN Join(Sep, kept) ELSE NoneValue

\* How the texts of the model mention an organization; name is the normalized name
\* of the hit of COMPANY_RE in the mention (<<>>: the pattern does not hit, as the
\* "d.o.o." is not followed by a letter or digit).
Mentions ==
    { [text |-> <<"A","c","m","e"," ","d",".","o",".","o",".","x">>, name |-> <<"a","c","m","e"," ","d",".","o",".","o",".">>],
      [text |-> <<"A","C","M","E"," "," ","d",".","o",".","o",".","1">>, name |-> <<"a","c","m","e"," ","d",".","o",".","o",".">>],
      [text |-> <<"B","e","t","a"," ","d",".","o",".","o",".","x">>, name |-> <<"b","e","t","a"," ","d",".","o",".","o",".">>],
      [text |-> <<"C","i","n","k","-","2"," ","d",".","o",".","o",".","a">>, name |-> <<"c","i","n","k","-","2"," ","d",".","o",".","o",".">>],
      [text |-> <<"Z","e","t","a"," ","d",".","o",".","o",".">>, name |-> <<>>] }

\* the most mentions a text of the model has
MaxMentions == 5

PartyTexts == UNION { [1..n -> Mentions] : n \in 0..MaxMentions }

PartyText(ms) == Join(<<",", " ">>, [n \in DOMAIN ms |-> ms[n].text])

CallExtractParties ==
    /\ fn = "extract_parties_worker"
    /\ ret = <<>>
    /\ ret' = ExtractParties(PartyText(arg))
    /\ UNCHANGED <<fn, arg>>
    /\ UNCHANGED <<groupVars, renameVars, uniqueVars, dateVars, targetVars>>

InitParties ==
    /\ fn = "extract_parties_worker"
    /\ arg \in PartyTexts
    /\ ret = <<>>
    /\ GroupIdle /\ RenameIdle /\ UniqueIdle /\ DateIdle /\ TargetIdle

SpecParties == InitParties /\ [][CallExtractParties]_vars

\* the distinct normalized names of all the hits of a text
HitNames(ms) == { ms[n].name : n \in DOMAIN ms } \ {<<>>}

Smaller(a, b) == StrCmp(a, b) = "lt"

\* C18: the result is the (at most) two smallest distinct normalized names among
\* all the hits of the text, joined by the separator, and None exactly when the
\* text has no hit.
C18_TwoSmallestOfAllHits ==
    (fn = "extract_parties_worker" /\ ret # <<>>) =>
        LET names == HitNames(arg)
        IN /\ names = {} <=> ret = NoneValue
           /\ Cardinality(names) = 1 => \E a \in names : ret = a
           /\ Cardinality(names) >= 2 =>
                 \E a, b \in names :
                    /\ Smaller(a, b)
                    /\ \A c \in names \ {a, b} : Smaller(b, c)
                    /\ ret = a \o <<"_", "_">> \o b

(***************************************************************************)
(* _normalize_key (core.py 26-29) and sanitize_filename (utils.py 27-30)   *)
(* applied to a string and then to their own result                        *)
(***************************************************************************)
\* the strings of up to n characters of an alphabet
StringsUpTo(alphabet, n) == UNION { [1..k -> alphabet] : k \in 0..n }

\* the longest key and the longest file name of the model
MaxKeyLen == 5
MaxNameLen == 5

KeyAlphabet == {"a", "B", " ", "_", "."}
NameAlphabet == {"a", " ", "\t", "/", ":"}

\* the last value: the argument, or what the last call returned
LastValue == IF ret = <<>> THEN arg ELSE ret[Len(ret)]

CallNormalizeKey ==
    /\ fn = "_normalize_key"
    /\ Len(ret) < 2
    /\ ret' = Append(ret, NormalizeKey(LastValue))
    /\ UNCHANGED <<fn, arg>>
    /\ UNCHANGED <<groupVars, renameVars, uniqueVars, dateVars, targetVars>>

InitNormalize ==
    /\ fn = "_normalize_key"
    /\ arg \in StringsUpTo(KeyAlphabet, MaxKeyLen)
    /\ ret = <<>>
    /\ GroupIdle /\ RenameIdle /\ UniqueIdle /\ DateIdle /\ TargetIdle

SpecNormalize == InitNormalize /\ [][CallNormalizeKey]_vars

CallSanitizeFilename ==
    /\ fn = "sanitize_filename"
    /\ Len(ret) < 2
    /\ ret' = Append(ret, SanitizeFilename(LastValue))
    /\ UNCHANGED <<fn, arg>>
    /\ UNCHANGED <<groupVars, renameVars, uniqueVars, dateVars, targetVars>>

InitSanitize ==
    /\ fn = "sanitize_filename"
    /\ arg \in StringsUpTo(NameAlphabet, MaxNameLen)
    /\ ret = <<>>
    /\ GroupIdle /\ RenameIdle /\ UniqueIdle /\ DateIdle /\ TargetIdle

SpecSanitize == InitSanitize /\ [][CallSanitizeFilename]_vars

TwoSpaces(s) == \E i \in 1..(Len(s) - 1) : s[i] = " " /\ s[i + 1] = " "

\* C19: _normalize_key is idempotent, normalize(normalize(s)) = normalize(s) for
\* every s, also with punctuation between two spaces, and its output never holds
\* two consecutive spaces.
C19_NormalizeIdempotent ==
    fn = "_normalize_key" =>
        /\ \A k \in DOMAIN ret : ~TwoSpaces(ret[k])
        /\ Len(ret) = 2 => ret[2] = ret[1]

\* C20: sanitize_filename returns a non-empty string without any of the characters
\* \ / : * ? " < > | and applied to its own output changes nothing.
C20_SanitizeSafeIdempotent ==
    fn = "sanitize_filename" =>
        /\ \A k \in DOMAIN ret :
              /\ ret[k] # <<>>
              /\ \A i \in DOMAIN ret[k] : ret[k][i] \notin {"\\", "/", ":", "*", "?", "\"", "<", ">", "|"}
        /\ Len(ret) = 2 => ret[2] = ret[1]

\* a name of illegal characters and whitespace between letters, and a name of
\* whitespace alone, have been sanitized twice
C20_Witness ==
    /\ fn = "sanitize_filename"
    /\ Len(ret) = 2
    /\ \/ arg = <<"a", "/", ":", "\t", "a">> /\ ret[1] = <<"a", "_", " ", "a">>
       \/ arg = <<" ", "\t">> /\ ret[1] = NEZNANO

(***************************************************************************)
(* hamming (utils.py 91-100) on pairs of hashes                            *)
(***************************************************************************)
\* the longest hash of the pairs
MaxHexLen == 2

HexAlphabet == {"0", "1", "7", "a", "F"}
Hashes == StringsUpTo(HexAlphabet, MaxHexLen) \ {<<>>}

\* hamming(a, b), hamming(b, a) and hamming(a, a)
CallHamming ==
    /\ fn = "hamming"
    /\ ret = <<>>
    /\ ret' = <<Hamming(arg[1], arg[2]), Hamming(arg[2], arg[1]), Hamming(arg[1], arg[1])>>
    /\ UNCHANGED <<fn, arg>>
    /\ UNCHANGED <<groupVars, renameVars, uniqueVars, dateVars, targetVars>>

InitHamming ==
    /\ fn = "hamming"
    /\ arg \in Hashes \X Hashes
    /\ ret = <<>>
    /\ GroupIdle /\ RenameIdle /\ UniqueIdle /\ DateIdle /\ TargetIdle

SpecHamming == InitHamming /\ [][CallHamming]_vars

\* bit p (0 the lowest) of the number a hash writes in base 16
BitAt(h, p) == IF p \div 4 >= Len(h) THEN 0 ELSE Bit(HexVal(h[Len(h) - (p \div 4)]), p % 4)
DifferingBits(a, b) ==
    { p \in 0..(4 * (IF Len(a) > Len(b) THEN Len(a) ELSE Len(b)) - 1) : BitAt(a, p) # BitAt(b, p) }

\* C21: hamming(a, b) is the number of bit positions in which the two hashes
\* differ; hamming(h, h) = 0, hamming(a, b) = hamming(b, a), and hamming(a, b) = 0
\* only if a and b write the same bit pattern.
C21_HammingCountsDifferingBits ==
    (fn = "hamming" /\ ret # <<>>) =>
        /\ ret[1] = Cardinality(DifferingBits(arg[1], arg[2]))
        /\ ret[3] = 0
        /\ ret[1] = ret[2]
        /\ ret[1] = 0 => DifferingBits(arg[1], arg[2]) = {}

\* 0x7a and 0x0F are five bits apart, in either order
C21_Witness ==
    /\ fn = "hamming"
    /\ arg = << <<"7", "a">>, <<"F">> >>
    /\ ret = <<5, 5, 0>>

(***************************************************************************)
(* extract_page_number_worker (core.py 597-603), PAGE_NUMBER_PATTERNS      *)
(* (constants.py 81-88) and the page number of analyze_and_pdf_worker      *)
(* (core.py 483-496)                                                       *)
(***************************************************************************)
\* \bWORD\s*(\d+)\b, IGNORECASE
PagePattern(w) ==
    <<WordBoundary, Literal(w), Rep(SpaceSet, 0, Unlimited, 0),
      Rep(DigitSet, 1, Unlimited, 1), WordBoundary>>

PAGE_NUMBER_PATTERNS ==
    << PagePattern(<<"s","t","r","a","n">>), PagePattern(<<"s","t","r",".">>),
       PagePattern(<<"p","a","g","e">>), PagePattern(<<"p","g",".">>) >>

\* the number of the first pattern found in the text, NoPage for None
RECURSIVE PageNumberFrom(_, _)
PageNumberFrom(text, p) ==
    IF p > Len(PAGE_NUMBER_PATTERNS) THEN NoPage
    ELSE IF ReSearch(PAGE_NUMBER_PATTERNS[p], text).ok
    THEN ToInt(ReSearch(PAGE_NUMBER_PATTERNS[p], text).groups[1])
    ELSE PageNumberFrom(text, p + 1)

ExtractPageNumber(text) == PageNumberFrom(text, 1)

\* str(x).strip().isdigit() and 1 <= len(str(x).strip()) <= 3
LonelyDigits(x) ==
    /\ 1 <= Len(Strip(x)) /\ Len(Strip(x)) <= 3
    /\ \A i \in DOMAIN Strip(x) : IsDigit(Strip(x)[i])

\* digits[-1] of the tokens read on the bottom strip, NoPage when there is none
LastDigits(tokens) ==
    IF SelectSeq(tokens, LonelyDigits) = <<>> THEN NoPage
    ELSE ToInt(Strip(SelectSeq(tokens, LonelyDigits)[Len(SelectSeq(tokens, LonelyDigits))]))

\* page_no of the record: the phrase of the text, else the bottom strip
PageNo(text, tokens) ==
    IF ExtractPageNumber(text) # NoPage THEN ExtractPageNumber(text) ELSE LastDigits(tokens)

\* the tokens of a bottom strip and the longest strip
StripTokens == { <<>>, <<"0">>, <<"7">>, <<" ","1","2"," ">>, <<"1","2","3","4">>, <<"x">> }
MaxTokens == 2
Strips == UNION { [1..n -> StripTokens] : n \in 0..MaxTokens }

\* texts with a page-number phrase, and without
PagePhrases ==
    { <<"s","t","r","a","n">>, <<"S","t","r",".">>, <<"p","a","g","e">>, <<"P","g",".">> }
PageNumerals == { <<"0">>, <<"1">>, <<"1","2">>, <<"0","0","7">> }
PhraseTexts ==
    { pre \o ph \o sp \o nu \o post :
        pre \in { <<>>, <<"x"," ">> }, ph \in PagePhrases, sp \in { <<>>, <<" ">> },
        nu \in PageNumerals, post \in { <<>>, <<"a">> } }
PageNumberTexts ==
    PhraseTexts \cup { <<>>, <<"a","b","c"," ","3">>, <<"s","t","r","a","n","k","a"," ","3">> }

CallPageNumber ==
    /\ fn = "page_number"
    /\ ret = <<>>
    /\ ret' = <<PageNo(arg.text, arg.strip)>>
    /\ UNCHANGED <<fn, arg>>
    /\ UNCHANGED <<groupVars, renameVars, uniqueVars, dateVars, targetVars>>

InitPage ==
    /\ fn = "page_number"
    /\ arg \in [text : PageNumberTexts, strip : Strips]
    /\ ret = <<>>
    /\ GroupIdle /\ RenameIdle /\ UniqueIdle /\ DateIdle /\ TargetIdle

SpecPage == InitPage /\ [][CallPageNumber]_vars

\* C22: the page number of a record is absent or an integer >= 1, whether it came
\* from a page-number phrase of the text or from the last 1-3-digit token of the
\* bottom strip.
C22_PageNumberAtLeastOne ==
    (fn = "page_number" /\ ret # <<>>) => (ret[1] = NoPage \/ ret[1] >= 1)

(***************************************************************************)
(* group_folder_to_documents from its call on (core.py 270-288): the       *)
(* folder may be missing, hold no image, or hold images no worker succeeds *)
(* on                                                                      *)
(***************************************************************************)
\* the checks of the folder and of its images, and the dispatch of one worker per
\* image (core.py 270-285)
OpenFolder ==
    /\ gpc = "start"
    /\ IF folder # "dir" \/ DOMAIN ocr = {}
       THEN gpc' = "ret_false" /\ UNCHANGED pending
       ELSE gpc' = "collect" /\ pending' = DOMAIN ocr
    /\ UNCHANGED <<folder, ocr, faults, results, nfailed, buckets, gi, made, merged, moved>>
    /\ UNCHANGED <<renameVars, uniqueVars, dateVars, callVars, targetVars>>

FolderNext ==
    \/ OpenFolder
    \/ \E img \in Images : Complete(img)
    \/ EndCollect
    \/ PlaceRecord
    \/ SortBuckets
    \/ MergeBucket

\* what the pages of the folders read: nothing, or one of two documents
FolderContent ==
    { Corrupt,
      [corrupt |-> FALSE, text |-> "A", hash |-> "A", page |-> NoPage],
      [corrupt |-> FALSE, text |-> "C", hash |-> "C", page |-> NoPage] }

InitFolder ==
    /\ folder \in {"dir", "missing"}
    /\ ocr \in UNION { [imgs -> FolderContent] : imgs \in SUBSET Images }
    /\ folder = "missing" => ocr = <<>>
    /\ faults \in OneFault
    /\ pending = {}
    /\ results = <<>>
    /\ nfailed = 0
    /\ buckets = <<>>
    /\ gpc = "start"
    /\ gi = 1
    /\ made = 0
    /\ merged = <<>>
    /\ moved = {}
    /\ RenameIdle /\ UniqueIdle /\ DateIdle /\ CallIdle /\ TargetIdle

SpecFolder == InitFolder /\ [][FolderNext]_vars

\* nothing was grouped, merged or moved
NothingCreated == buckets = <<>> /\ merged = <<>> /\ moved = {} /\ made = 0

\* no worker can return a successful record
NoSuccess == folder = "missing" \/ \A img \in DOMAIN ocr : ocr[img].corrupt

\* C23: group_folder_to_documents returns False and creates no bucket, folder or
\* merged PDF when the folder is missing, holds no images, or no worker returned a
\* successful record; it returns True only if at least one document was produced.
C23_FailureCreatesNothing ==
    /\ NoSuccess => (gpc \in {"start", "collect", "ret_false"} /\ NothingCreated)
    /\ gpc = "ret_false" => NothingCreated
    /\ gpc = "ret_true" => (made >= 1 /\ Len(merged) = made)

\* every worker of a full folder failed and False was returned
C23_Witness ==
    /\ gpc = "ret_false"
    /\ folder = "dir"
    /\ DOMAIN ocr = Images
    /\ nfailed = NumImages
    /\ NothingCreated

\* C24: no bucket placement, sort, merge or move happens before the result of
\* every dispatched worker has been collected: the grouping starts only after all
\* workers have completed, and the driver alone runs it.
C24_GroupingAfterAllCollected ==
    (gpc \in {"bucket", "sort", "merge", "ret_true", "raised"} \/ ~NothingCreated) =>
        /\ pending = {}
        /\ Len(results) + nfailed = Cardinality(DOMAIN ocr)

\* three workers were dispatched, all were collected, and records are in buckets
C24_Witness ==
    /\ gpc = "bucket"
    /\ gi = 2
    /\ buckets # <<>>
    /\ Cardinality(DOMAIN ocr) = NumImages
    /\ nfailed = 1

(***************************************************************************)
(* The path ensure_unique_path returns, at the time of the call            *)
(* (SpecUnique)                                                            *)
(***************************************************************************)
\* the smallest i of range(1, 101) whose candidate does not exist
SmallestFree(taken) ==
    CHOOSE i \in 1..MaxAttempts : i \notin taken /\ \A k \in 1..(i - 1) : k \in taken

\* C25: ensure_unique_path returns its argument unchanged when that path does not
\* exist, otherwise base_i for the smallest i in 1..100 whose path does not exist;
\* in every case, also when all 100 candidates exist and the suffix comes from
\* the clock, the returned path does not exist at the time of the call.
C25_ReturnedPathIsFree ==
    [][Len(uret') = Len(uret) + 1 =>
          /\ uret'[Len(uret')] \notin ufs
          /\ NoSuffix \notin ufs => uret'[Len(uret')] = NoSuffix
          /\ (NoSuffix \in ufs /\ \E i \in 1..MaxAttempts : i \notin ufs) =>
                uret'[Len(uret')] = SmallestFree(ufs)]_vars

(***************************************************************************)
(* The buckets and the arrival order of the records (SpecGroup)            *)
(***************************************************************************)
\* the indices of results in the order of their images
ByImage ==
    [n \in DOMAIN results |->
        CHOOSE k \in DOMAIN results :
            Cardinality({ j \in DOMAIN results : results[j].image < results[k].image }) = n - 1]

\* the buckets of the loop of core.py 300-310 run over the first n records of an order
RECURSIVE PlaceAll(_, _)
PlaceAll(order, n) == IF n = 0 THEN <<>> ELSE Place(PlaceAll(order, n - 1), order[n])

\* the sets of images that are together in the buckets
PartitionOf(bs) ==
    { { results[bs[j].arr[p]].image : p \in DOMAIN bs[j].arr } : j \in DOMAIN bs }

\* C26: the partition of the successful records into buckets does not depend on
\* the order in which the worker results arrive: in whatever order the records of
\* a folder came, the same sets of records are together as when they come in the
\* order of their images.
C26_PartitionIgnoresArrivalOrder ==
    Bucketed => PartitionOf(buckets) = PartitionOf(PlaceAll(ByImage, Len(results)))

\* the records came in another order than that of their images, with the first
\* image last, two of them of one document with different headers and the third
\* of another document
C26_Witness ==
    /\ Bucketed
    /\ Len(results) = NumImages
    /\ results[Len(results)].image = 1
    /\ Len(buckets) = 2
    /\ \E j \in DOMAIN buckets :
          /\ Len(buckets[j].arr) = 2
          /\ results[buckets[j].arr[1]].header_hash # results[buckets[j].arr[2]].header_hash

====
